---- MODULE Spec2Model ----
(***************************************************************************)
(* Verification model of go-netgear: the token stores (pkg/netgear         *)
(* FileTokenManager / MemoryTokenManager), the endpoint registry, the      *)
(* PortManager entry points, the library client's Login / Logout, and the  *)
(* CLI request helpers (internal/common).                                  *)
(*                                                                         *)
(* Strings whose content the code inspects (hosts, model names, tokens,    *)
(* file contents, headers, bodies) are sequences: hosts are sequences of   *)
(* byte values (they are hashed), everything else is a sequence of         *)
(* one-character strings.  The file system is reliable: ReadFile fails     *)
(* only when the file does not exist, WriteFile and MkdirAll succeed.      *)
(***************************************************************************)
EXTENDS Integers, Sequences, FiniteSets, TLC

VARIABLES
    mgrKind,    \* which TokenManager was constructed: "file" or "memory"
    files,      \* FileTokenManager cache directory: file name -> [content, by, mode]
    mem,        \* MemoryTokenManager.tokens: address -> tokenData
    lastCall,   \* the call that has just returned: operation, inputs, results
    cliFiles,   \* CLI token directory (.config/ntgrrc): file name -> [content, mode]
    args,       \* the CLI's GlobalOptions object: fields Model and Token
    session,    \* the switches: host -> token of the session it accepts, or NoStr
    sent,       \* HTTP requests sent during the last network-using call
    recv,       \* responses received during the last network-using call
    inflight,   \* goroutine -> the StoreToken call it is in the middle of
    storeCalls, \* history: the <<address, model, token>> StoreToken was called with
    dirs        \* the permission bits of the two directories, or NoDir

storeVars == <<mgrKind, files, mem, inflight, storeCalls, dirs>>
cliVars   == <<cliFiles, args>>
netVars   == <<session, sent, recv>>
vars      == <<storeVars, lastCall, cliVars, netVars>>

(***************************************************************************)
(* Bounds                                                                  *)
(***************************************************************************)
MaxTokLen == 1
MaxProcs  == 2

(***************************************************************************)
(* String helpers                                                          *)
(***************************************************************************)
\* strings.Contains
Contains(s, sub) ==
    \E i \in 1..(Len(s) - Len(sub) + 1) : SubSeq(s, i, i + Len(sub) - 1) = sub

\* strings.Index for a one-character separator; 0 when absent
IndexOf(s, c) ==
    IF \E i \in 1..Len(s) : s[i] = c
    THEN CHOOSE i \in 1..Len(s) : s[i] = c /\ \A j \in 1..(i - 1) : s[j] # c
    ELSE 0

\* unicode.IsSpace restricted to the ASCII white space
IsSpace(c) == c \in {" ", "\t", "\n", "\r"}

\* strings.TrimSpace
TrimSpace(s) ==
    IF \A i \in 1..Len(s) : IsSpace(s[i])
    THEN << >>
    ELSE LET first == CHOOSE i \in 1..Len(s) :
                          ~IsSpace(s[i]) /\ \A j \in 1..(i - 1) : IsSpace(s[j])
             last  == CHOOSE i \in 1..Len(s) :
                          ~IsSpace(s[i]) /\ \A j \in (i + 1)..Len(s) : IsSpace(s[j])
         IN  SubSeq(s, first, last)

\* strings.SplitN(content, sep, 2): at most two parts, cut at the first sep
SplitN2(content, sep) ==
    LET i == IndexOf(content, sep)
    IN  IF i = 0 THEN << content >>
        ELSE << SubSeq(content, 1, i - 1), SubSeq(content, i + 1, Len(content)) >>

\* all sequences over S of length at most n
SeqsUpTo(S, n) == UNION { [1..k -> S] : k \in 0..n }

(***************************************************************************)
(* Hosts, models, tokens                                                   *)
(***************************************************************************)
\* "liquid" and "costarring" have the same 32-bit FNV-1a hash
Liquid     == <<108, 105, 113, 117, 105, 100>>
Costarring == <<99, 111, 115, 116, 97, 114, 114, 105, 110, 103>>
Sw1        == <<115, 119, 49>>
Hosts      == {Liquid, Costarring, Sw1}

GS30xEPx == <<"G", "S", "3", "0", "x", "E", "P", "x">>
GS305EP  == <<"G", "S", "3", "0", "5", "E", "P">>
GS305EPP == <<"G", "S", "3", "0", "5", "E", "P", "P">>
GS308EP  == <<"G", "S", "3", "0", "8", "E", "P">>
GS308EPP == <<"G", "S", "3", "0", "8", "E", "P", "P">>
GS316EP  == <<"G", "S", "3", "1", "6", "E", "P">>
GS316EPP == <<"G", "S", "3", "1", "6", "E", "P", "P">>

IsModel30x(nm) == nm \in {GS305EP, GS305EPP, GS308EP, GS308EPP, GS30xEPx}
IsModel316(nm) == nm \in {GS316EP, GS316EPP}
\* Model.IsSupported of pkg/netgear
IsSupported(nm) == IsModel30x(nm) \/ IsModel316(nm)

\* the families the calls of the model are made with
Families == {GS308EP, GS316EPP}

TokenChars == {"a", " ", ":"}
Tokens     == SeqsUpTo(TokenChars, MaxTokLen)

NoStr == << >>
Nil   == "nil"

\* a GlobalOptions object as the command line parser leaves it when neither
\* a model nor a token is given
NoArgs == [Model |-> NoStr, Token |-> NoStr]

\* the goroutines that call the token store concurrently; a goroutine that
\* is in no StoreToken call
Procs == 1..MaxProcs
Idle  == [pc |-> "idle", address |-> NoStr, token |-> NoStr, model |-> NoStr,
          unlinked |-> FALSE]

(***************************************************************************)
(* hash/fnv New32a, on 32-bit words kept as four bytes, most significant   *)
(* first                                                                   *)
(***************************************************************************)
RECURSIVE Xor(_, _)
Xor(a, b) ==
    IF a = 0 THEN b
    ELSE IF b = 0 THEN a
    ELSE (((a % 2) + (b % 2)) % 2) + 2 * Xor(a \div 2, b \div 2)

FnvOffset32 == <<129, 28, 157, 197>>

\* h * 16777619 mod 2^32, 16777619 = 2^24 + 403
FnvMulPrime32(h) ==
    LET t0 == h[4] * 403
        t1 == h[3] * 403 + (t0 \div 256)
        t2 == h[2] * 403 + (t1 \div 256)
        t3 == h[1] * 403 + (t2 \div 256) + h[4]
    IN  << t3 % 256, t2 % 256, t1 % 256, t0 % 256 >>

RECURSIVE Fnv32aFrom(_, _)
Fnv32aFrom(h, bytes) ==
    IF bytes = << >> THEN h
    ELSE Fnv32aFrom(FnvMulPrime32(<< h[1], h[2], h[3], Xor(h[4], Head(bytes)) >>),
                    Tail(bytes))

Fnv32a(bytes) == Fnv32aFrom(FnvOffset32, bytes)

(***************************************************************************)
(* FileTokenManager                                                        *)
(***************************************************************************)
\* the hashes of the hosts of the model, computed once
HostHashes == [address \in Hosts |-> Fnv32a(address)]

\* the file "netgear-token-<hash in hex>.cache" of the cache directory
getTokenFilename(address) ==
    IF address \in Hosts THEN HostHashes[address] ELSE Fnv32a(address)

Result(err, token, model) == [err |-> err, token |-> token, model |-> model]

\* a GetToken that reports every token file it cannot parse as unreadable
FileGetTokenUnreadable(address) ==
    LET tokenFile == getTokenFilename(address)
    IN  IF tokenFile \notin DOMAIN files
        THEN Result("failed to read token file", NoStr, NoStr)
        ELSE LET content == files[tokenFile].content
             IN  IF content = << >> \/ ~Contains(content, << ":" >>)
                 THEN Result("failed to read token file", NoStr, NoStr)
                 ELSE LET parts    == SplitN2(content, ":")
                          modelStr == TrimSpace(parts[1])
                          token    == TrimSpace(parts[2])
                      IN  IF ~IsSupported(modelStr)
                          THEN Result("unknown model in token file", NoStr, NoStr)
                          ELSE Result(Nil, token, modelStr)

FileGetToken(address) ==
    LET tokenFile == getTokenFilename(address)
    IN  IF tokenFile \notin DOMAIN files
        THEN Result("failed to read token file", NoStr, NoStr)
        ELSE LET content == files[tokenFile].content
             IN  IF content = << >>
                 THEN Result("token file is empty", NoStr, NoStr)
                 ELSE IF ~Contains(content, << ":" >>)
                 THEN Result("malformed token file", NoStr, NoStr)
                 ELSE LET parts    == SplitN2(content, ":")
                          modelStr == TrimSpace(parts[1])
                          token    == TrimSpace(parts[2])
                      IN  IF ~IsSupported(modelStr)
                          THEN Result("unknown model in token file", NoStr, NoStr)
                          ELSE Result(Nil, token, modelStr)

\* no such directory
NoDir == "absent"

\* os.MkdirAll: a directory that exists keeps its permission bits
MkdirAll(ds, dir, perm) == IF ds[dir] = NoDir THEN [ds EXCEPT ![dir] = perm] ELSE ds

\* os.WriteFile: the permission bits are those given when the file is
\* created, and those it has when it exists
WriteFileMode(fs, name, perm) == IF name \in DOMAIN fs THEN fs[name].mode ELSE perm

\* a StoreToken that writes the token alone, without the model
FileStoreTokenOnly(address, token, model) ==
    LET tokenFile == getTokenFilename(address)
    IN  [n \in DOMAIN files \cup {tokenFile} |->
            IF n = tokenFile
            THEN [content |-> token, by |-> address,
                  mode |-> WriteFileMode(files, tokenFile, "0600")]
            ELSE files[n]]

\* the cache directory after StoreToken; "by" records the address the
\* content was stored under (history only, the file holds just the content)
FileStoreToken(address, token, model) ==
    LET tokenFile == getTokenFilename(address)
        content   == model \o << ":" >> \o token
    IN  [n \in DOMAIN files \cup {tokenFile} |->
            IF n = tokenFile
            THEN [content |-> content, by |-> address,
                  mode |-> WriteFileMode(files, tokenFile, "0600")]
            ELSE files[n]]

\* os.Remove: "nil", or "not exist" when there is no such file
RemoveErr(name) == IF name \in DOMAIN files THEN Nil ELSE "not exist"

FileDeleteTokenErr(address) ==
    LET err == RemoveErr(getTokenFilename(address))
    IN  IF err # Nil /\ err # "not exist"
        THEN "failed to delete token file"
        ELSE Nil

FileDeleteToken(address) ==
    [n \in DOMAIN files \ {getTokenFilename(address)} |-> files[n]]

(***************************************************************************)
(* MemoryTokenManager                                                      *)
(***************************************************************************)
MemGetToken(address) ==
    IF address \notin DOMAIN mem
    THEN Result("token not found", NoStr, NoStr)
    ELSE Result(Nil, mem[address].token, mem[address].model)

MemStoreToken(address, token, model) ==
    [a \in DOMAIN mem \cup {address} |->
        IF a = address THEN [token |-> token, model |-> model] ELSE mem[a]]

MemDeleteToken(address) == [a \in DOMAIN mem \ {address} |-> mem[a]]

(***************************************************************************)
(* The TokenManager interface, dispatched on the constructed manager       *)
(***************************************************************************)
TMGet(address) ==
    IF mgrKind = "file" THEN FileGetToken(address) ELSE MemGetToken(address)

Call(op, host, inTok, inModel, res) ==
    [op |-> op, host |-> host, inTok |-> inTok, inModel |-> inModel,
     err |-> res.err, token |-> res.token, model |-> res.model]

GetToken(address) ==
    /\ lastCall' = Call("GetToken", address, NoStr, NoStr, TMGet(address))
    /\ UNCHANGED <<storeVars, cliVars, netVars>>

StoreToken(address, token, model) ==
    /\ IF mgrKind = "file"
       THEN files' = FileStoreToken(address, token, model) /\ UNCHANGED mem
       ELSE mem' = MemStoreToken(address, token, model) /\ UNCHANGED files
    /\ dirs' = IF mgrKind = "file" THEN MkdirAll(dirs, "cache", "0700") ELSE dirs
    /\ lastCall' = Call("StoreToken", address, token, model, Result(Nil, NoStr, NoStr))
    /\ UNCHANGED <<mgrKind, inflight, storeCalls, cliVars, netVars>>

DeleteToken(address) ==
    /\ IF mgrKind = "file"
       THEN /\ files' = FileDeleteToken(address)
            /\ lastCall' = Call("DeleteToken", address, NoStr, NoStr,
                                Result(FileDeleteTokenErr(address), NoStr, NoStr))
            /\ UNCHANGED mem
       ELSE /\ mem' = MemDeleteToken(address)
            /\ lastCall' = Call("DeleteToken", address, NoStr, NoStr,
                                Result(Nil, NoStr, NoStr))
            /\ UNCHANGED files
    /\ UNCHANGED <<mgrKind, dirs, inflight, storeCalls, cliVars, netVars>>

\* FileTokenManager.ClearAllTokens: every netgear-token-*.cache is removed
ClearAllTokens ==
    /\ mgrKind = "file"
    /\ files' = << >>
    /\ lastCall' = Call("ClearAllTokens", NoStr, NoStr, NoStr, Result(Nil, NoStr, NoStr))
    /\ UNCHANGED <<mgrKind, dirs, inflight, storeCalls, mem, cliVars, netVars>>

NoCall == Call("none", NoStr, NoStr, NoStr, Result(Nil, NoStr, NoStr))

InitStore ==
    /\ mgrKind \in {"file", "memory"}
    /\ files = << >>
    /\ mem = << >>
    /\ lastCall = NoCall
    /\ cliFiles = << >>
    /\ args = NoArgs
    /\ session = [h \in Hosts |-> NoStr]
    /\ sent = << >>
    /\ recv = << >>
    /\ inflight = [p \in Procs |-> Idle]
    /\ storeCalls = {}
    /\ dirs = [cache |-> NoDir, config |-> NoDir]

NextStore ==
    \/ \E h \in Hosts : GetToken(h)
    \/ \E h \in Hosts, t \in Tokens, m \in Families : StoreToken(h, t, m)
    \/ \E h \in Hosts : DeleteToken(h)
    \/ ClearAllTokens

SpecStore == InitStore /\ [][NextStore]_vars

(***************************************************************************)
(* Token store properties                                                  *)
(***************************************************************************)
\* the "not found" outcomes of GetToken
NotFound(res) == res.err \in {"failed to read token file", "token not found"}

\* a record was stored under this very address and has not been removed
HasRecord(address) ==
    IF mgrKind = "file"
    THEN \E n \in DOMAIN files : files[n].by = address
    ELSE address \in DOMAIN mem

\* C8: a successful Get(host) on the file-backed store returns a record that
\* was stored under that same host, never one stored under another host,
\* also when both hosts hash to the same file name.
C8_NoWrongHostRecord ==
    (mgrKind = "file" /\ lastCall.op = "GetToken" /\ lastCall.err = Nil)
        => files[getTokenFilename(lastCall.host)].by = lastCall.host

\* C9: on the file-backed store, Store(host, f, t) immediately followed by
\* Get(host) returns exactly (f, t), for every supported family f and every
\* token string t.
C9_StoreGetRoundTrip ==
    [][(/\ mgrKind = "file"
        /\ lastCall.op = "StoreToken"
        /\ lastCall'.op = "GetToken"
        /\ lastCall'.host = lastCall.host)
            => (/\ lastCall'.err = Nil
                /\ lastCall'.token = lastCall.inTok
                /\ lastCall'.model = lastCall.inModel)]_vars

\* C10: after Delete(host) a Get(host) is "not found", whether or not a
\* record existed; Delete for a host with no record returns no error and
\* leaves the store as it was.
C10_DeleteThenNotFound ==
    /\ [](lastCall.op = "DeleteToken" => NotFound(TMGet(lastCall.host)))
    /\ [][\A h \in Hosts :
            (lastCall'.op = "DeleteToken" /\ lastCall'.host = h /\ ~HasRecord(h))
                => (lastCall'.err = Nil /\ files' = files /\ mem' = mem)]_vars

(***************************************************************************)
(* The switches and the HTTP exchange                                      *)
(***************************************************************************)
\* hosts the network-using calls are made for, and the model behind each
NetHosts == {Sw1, Liquid}
SwitchModel(host) == IF host = Sw1 THEN GS30xEPx ELSE GS316EPP

\* session tokens a switch issues
SwitchTokens == {<<"a">>, <<"b">>}

\* paths and markers
LoginCgi      == <<"/", "l", "o", "g", "i", "n", ".", "c", "g", "i">>
WmiLogin      == <<"/", "w", "m", "i", "/", "l", "o", "g", "i", "n">>
RedirectHtml  == <<"/", "r", "e", "d", "i", "r", "e", "c", "t", ".", "h", "t", "m", "l">>
DashboardCgi  == <<"/", "d", "a", "s", "h", "b", "o", "a", "r", "d", ".", "c", "g", "i">>
DashboardHtml == <<"/", "i", "s", "s", "/", "s", "p", "e", "c", "i", "f", "i", "c", "/", "d", "a", "s", "h", "b", "o", "a", "r", "d", ".", "h", "t", "m", "l">>
Root          == <<"/">>

\* response bodies of the switches
LoginPage30x  == <<"<", "a", " ", "h", "r", "e", "f", "=", "/", "l", "o", "g", "i", "n", ".", "c", "g", "i", ">">>
LoginPage316  == <<"<", "a", " ", "h", "r", "e", "f", "=", "/", "w", "m", "i", "/", "l", "o", "g", "i", "n", ">">>
DataPage      == <<"<", "l", "i", ">", "p", "o", "r", "t", "1", "<", "/", "l", "i", ">">>
Success       == <<"S", "U", "C", "C", "E", "S", "S">>

Request(method, host, url, cookie) ==
    [method |-> method, host |-> host, url |-> url, cookie |-> cookie]

SidCookie(token)    == <<"S", "I", "D", "=">> \o token
GambitCookie(token) == <<"g", "a", "m", "b", "i", "t", "C", "o", "o", "k", "i", "e", "=">> \o token

\* a switch serves a request that carries the token of its current session
Accepts(req) ==
    /\ session[req.host] # NoStr
    /\ req.cookie \in {SidCookie(session[req.host]), GambitCookie(session[req.host])}

\* the body a switch answers with
SwitchBody(req) ==
    IF Accepts(req)
    THEN IF req.method = "POST" THEN Success ELSE DataPage
    ELSE IF IsModel316(SwitchModel(req.host)) THEN LoginPage316 ELSE LoginPage30x

\* outcomes of the transport: the exchange completes, or client.Do fails
NetOutcomes == {"ok", "connection refused"}

(***************************************************************************)
(* CLI token file and request helpers (internal/common, internal/client)   *)
(***************************************************************************)
\* hash/adler32 of the host: the two 16-bit halves, high half first
RECURSIVE Adler32From(_, _, _)
Adler32From(a, b, bytes) ==
    IF bytes = << >> THEN <<b, a>>
    ELSE LET a2 == (a + Head(bytes)) % 65521
         IN  Adler32From(a2, (b + a2) % 65521, Tail(bytes))

\* the file "token-<hash in hex>" of the .config/ntgrrc directory
tokenFilename(host) == Adler32From(1, 0, host)

IsSupportedModel(modelName) == IsModel30x(modelName) \/ IsModel316(modelName)

ErrNoSession == "no session (token) exists. please login first"
ErrReLogin   == "no content. please, (re-)login first"

TokenRead(model, token, err, a) ==
    [model |-> model, token |-> token, err |-> err, args |-> a]

\* the model, the token, the error and the options object as the call leaves it
ReadTokenAndModel2GlobalOptions(a, host) ==
    IF Len(a.Model) > 0 /\ Len(a.Token) > 0
    THEN TokenRead(a.Model, a.Token, Nil, a)
    ELSE IF tokenFilename(host) \notin DOMAIN cliFiles
    THEN TokenRead(NoStr, NoStr, ErrNoSession, a)
    ELSE LET data == SplitN2(cliFiles[tokenFilename(host)].content, ":")
         IN  IF Len(data) # 2
             THEN TokenRead(NoStr, NoStr,
                      "you did an upgrade from a former ntgrcc version. please login again", a)
             ELSE IF ~IsSupportedModel(data[1])
             THEN TokenRead(NoStr, NoStr,
                      "unknown model stored in token. please login again", a)
             ELSE TokenRead(data[1], data[2], Nil,
                      [Model |-> data[1], Token |-> data[2]])

\* the cut of strings.Split(requestUrl, "?"): its first two parts
SplitQuery(url) ==
    LET parts == SplitN2(url, "?")
    IN  << parts[1], SplitN2(parts[2], "?")[1] >>

Exchange(body, err, a, reqs, bodies) ==
    [body |-> body, err |-> err, args |-> a, sent |-> reqs, recv |-> bodies]

\* a request helper that logs in again by itself when the switch answers
\* with its login page
DoHttpRequestWithRelogin(a, httpMethod, host, requestUrl, net) ==
    LET r == ReadTokenAndModel2GlobalOptions(a, host)
        cookie == IF IsModel30x(r.model) THEN SidCookie(r.token)
                  ELSE GambitCookie(r.token)
        req == Request(httpMethod, host, requestUrl, cookie)
    IN  IF r.err # Nil
        THEN Exchange(NoStr, r.err, r.args, << >>, << >>)
        ELSE IF net # "ok"
        THEN Exchange(NoStr, net, r.args, << req >>, << >>)
        ELSE IF SwitchBody(req) \in {LoginPage30x, LoginPage316}
        THEN Exchange(SwitchBody(req), Nil, r.args,
                      << req, Request("GET", host, LoginCgi, NoStr),
                         Request("POST", host, LoginCgi, NoStr) >>,
                      << SwitchBody(req) >>)
        ELSE Exchange(SwitchBody(req), Nil, r.args, << req >>, << SwitchBody(req) >>)

DoHttpRequestAndReadResponse(a, httpMethod, host, requestUrl, net) ==
    LET r == ReadTokenAndModel2GlobalOptions(a, host)
    IN  IF r.err # Nil
        THEN Exchange(NoStr, r.err, r.args, << >>, << >>)
        ELSE LET url == IF IsModel316(r.model)
                        THEN IF Contains(requestUrl, << "?" >>)
                             THEN SplitQuery(requestUrl)[1] \o <<"?", "G", "a", "m", "b", "i", "t", "=">> \o r.token
                                      \o << "&" >> \o SplitQuery(requestUrl)[2]
                             ELSE requestUrl \o <<"?", "G", "a", "m", "b", "i", "t", "=">> \o r.token
                        ELSE requestUrl
                 cookie == IF IsModel30x(r.model) THEN SidCookie(r.token)
                           ELSE GambitCookie(r.token)
                 req == Request(httpMethod, host, url, cookie)
             IN  IF net # "ok"
                 THEN Exchange(NoStr, net, r.args, << req >>, << >>)
                 ELSE Exchange(SwitchBody(req), Nil, r.args, << req >>, << SwitchBody(req) >>)

RequestPage(a, host, url, net) ==
    DoHttpRequestAndReadResponse(a, "GET", host, url, net)

\* a classifier that does not know the login path of the GS316 models
CheckIsLoginRequiredNoWmi(httpResponseBody) ==
    \/ Len(httpResponseBody) < 10
    \/ Contains(httpResponseBody, LoginCgi)
    \/ Contains(httpResponseBody, RedirectHtml)

\* a classifier without the minimal length
CheckIsLoginRequiredAnyLength(httpResponseBody) ==
    \/ Contains(httpResponseBody, LoginCgi)
    \/ Contains(httpResponseBody, WmiLogin)
    \/ Contains(httpResponseBody, RedirectHtml)

CheckIsLoginRequired(httpResponseBody) ==
    \/ Len(httpResponseBody) < 10
    \/ Contains(httpResponseBody, LoginCgi)
    \/ Contains(httpResponseBody, WmiLogin)
    \/ Contains(httpResponseBody, RedirectHtml)

requestPortSettings(a, host, net) ==
    LET r == ReadTokenAndModel2GlobalOptions(a, host)
    IN  IF r.err # Nil
        THEN Exchange(NoStr, r.err, r.args, << >>, << >>)
        ELSE LET requestUrl == IF IsModel30x(r.model) THEN DashboardCgi ELSE DashboardHtml
                 x == RequestPage(r.args, host, requestUrl, net)
             IN  IF x.err # Nil THEN x
                 ELSE IF CheckIsLoginRequired(x.body)
                 THEN Exchange(NoStr, ErrReLogin, x.args, x.sent, x.recv)
                 ELSE x

\* the token directory after storeToken
storeToken(a, host, token) ==
    [n \in DOMAIN cliFiles \cup {tokenFilename(host)} |->
        IF n = tokenFilename(host)
        THEN [content |-> a.Model \o << ":" >> \o token,
              mode |-> WriteFileMode(cliFiles, tokenFilename(host), "0644")]
        ELSE cliFiles[n]]

(***************************************************************************)
(* CLI calls                                                               *)
(***************************************************************************)
PoeStatusHtml == <<"/", "i", "s", "s", "/", "s", "p", "e", "c", "i", "f", "i", "c", "/", "p", "o", "e", "P", "o", "r", "t", "S", "t", "a", "t", "u", "s", ".", "h", "t", "m", "l", "?", "G", "e", "t", "D", "a", "t", "a", "=", "T", "R", "U", "E">>
CliUrls       == {DashboardCgi, DashboardHtml, PoeStatusHtml}

CliResult(op, host, x) ==
    Call(op, host, NoStr, NoStr, Result(x.err, NoStr, NoStr))

\* a direct call of the token reader with the process's options object
CliReadToken(host) ==
    LET r == ReadTokenAndModel2GlobalOptions(args, host)
    IN  /\ args' = r.args
        /\ lastCall' = Call("ReadTokenAndModel2GlobalOptions", host, NoStr, NoStr,
                            Result(r.err, r.token, r.model))
        /\ sent' = << >>
        /\ recv' = << >>
        /\ UNCHANGED <<storeVars, cliFiles, session>>

CliDoRequest(httpMethod, host, url, net) ==
    LET x == DoHttpRequestAndReadResponse(args, httpMethod, host, url, net)
    IN  /\ args' = x.args
        /\ lastCall' = CliResult("DoHttpRequestAndReadResponse", host, x)
        /\ sent' = x.sent
        /\ recv' = x.recv
        /\ UNCHANGED <<storeVars, cliFiles, session>>

CliPortSettings(host, net) ==
    LET x == requestPortSettings(args, host, net)
    IN  /\ args' = x.args
        /\ lastCall' = CliResult("requestPortSettings", host, x)
        /\ sent' = x.sent
        /\ recv' = x.recv
        /\ UNCHANGED <<storeVars, cliFiles, session>>

\* the login command, run as a process of its own: seed fetch, login POST,
\* and on success the token the switch issued is stored for the host
CliLogin(host, accepted, token) ==
    LET model   == SwitchModel(host)
        seedUrl == IF IsModel316(model) THEN WmiLogin ELSE LoginCgi
        postUrl == IF IsModel316(model) THEN RedirectHtml ELSE LoginCgi
        a       == [Model |-> model, Token |-> NoStr]
    IN  /\ args' = a
        /\ sent' = << Request("GET", host, seedUrl, NoStr),
                      Request("POST", host, postUrl, NoStr) >>
        /\ recv' = << >>
        /\ IF accepted
           THEN /\ session' = [session EXCEPT ![host] = token]
                /\ dirs' = MkdirAll(dirs, "config", "0700")
                /\ cliFiles' = storeToken(a, host, token)
                /\ lastCall' = Call("Login", host, NoStr, NoStr, Result(Nil, token, model))
           ELSE /\ UNCHANGED <<session, cliFiles, dirs>>
                /\ lastCall' = Call("Login", host, NoStr, NoStr,
                                    Result("login failed", NoStr, NoStr))
        /\ UNCHANGED <<mgrKind, files, mem, inflight, storeCalls>>

\* the next command starts as a new process with a fresh options object
NewProcess ==
    /\ args # NoArgs
    /\ args' = NoArgs
    /\ lastCall' = NoCall
    /\ sent' = << >>
    /\ recv' = << >>
    /\ UNCHANGED <<storeVars, cliFiles, session>>

\* the switch ends a session after a period of inactivity
SessionExpire(host) ==
    /\ session[host] # NoStr
    /\ session' = [session EXCEPT ![host] = NoStr]
    /\ UNCHANGED <<storeVars, lastCall, cliVars, sent, recv>>

InitCli ==
    /\ mgrKind = "file"
    /\ files = << >>
    /\ mem = << >>
    /\ lastCall = NoCall
    /\ cliFiles = << >>
    /\ args = NoArgs
    /\ session = [h \in Hosts |-> NoStr]
    /\ sent = << >>
    /\ recv = << >>
    /\ inflight = [p \in Procs |-> Idle]
    /\ storeCalls = {}
    /\ dirs = [cache |-> NoDir, config |-> NoDir]

NextCli ==
    \/ \E h \in NetHosts : CliReadToken(h)
    \/ \E m \in {"GET", "POST"}, h \in NetHosts, u \in CliUrls, n \in NetOutcomes :
           CliDoRequest(m, h, u, n)
    \/ \E h \in NetHosts, n \in NetOutcomes : CliPortSettings(h, n)
    \/ \E h \in NetHosts, ok \in BOOLEAN, t \in SwitchTokens : CliLogin(h, ok, t)
    \/ NewProcess
    \/ \E h \in NetHosts : SessionExpire(h)

SpecCli == InitCli /\ [][NextCli]_vars

(***************************************************************************)
(* Properties of the authenticated CLI calls                               *)
(***************************************************************************)
AuthOps == {"DoHttpRequestAndReadResponse", "requestPortSettings"}

IsSeedFetch(req)  == req.method = "GET" /\ req.url \in {LoginCgi, WmiLogin}
IsLoginPost(req)  == req.method = "POST" /\ req.url \in {LoginCgi, RedirectHtml}
IsLoginPage(body) == body \in {LoginPage30x, LoginPage316}

\* C4: an authenticated call whose response is the switch's login page
\* returns the (re-)login error, and the token file of the host is exactly
\* what it was before the call.
C4_ExpiredLeavesRecord ==
    [][(/\ lastCall'.op = "requestPortSettings"
        /\ recv' # << >>
        /\ IsLoginPage(recv'[1]))
            => (lastCall'.err = ErrReLogin /\ cliFiles' = cliFiles)]_vars

\* C4 witness: a port settings call for a host with a stored token got the
\* login page and returned the (re-)login error.
C4_Witness ==
    /\ lastCall.op = "requestPortSettings"
    /\ lastCall.err = ErrReLogin
    /\ recv # << >>
    /\ IsLoginPage(recv[1])
    /\ tokenFilename(lastCall.host) \in DOMAIN cliFiles

\* C5: an authenticated call sends at most one request and never a seed
\* fetch or a login POST; a switch whose session has expired serves no
\* authenticated call, and its session comes back only by a Login call for
\* that host.
C5_NoLoginByRequest ==
    /\ [](lastCall.op \in AuthOps
            => (/\ Len(sent) <= 1
                /\ \A i \in DOMAIN sent :
                       ~IsSeedFetch(sent[i]) /\ ~IsLoginPost(sent[i])))
    /\ [][\A h \in NetHosts :
            /\ (session[h] = NoStr /\ session'[h] # NoStr)
                   => (lastCall'.op = "Login" /\ lastCall'.host = h)
            /\ (/\ session[h] = NoStr
                /\ session' = session
                /\ lastCall'.op \in AuthOps
                /\ lastCall'.host = h)
                   => \A i \in DOMAIN recv' : IsLoginPage(recv'[i])
         ]_vars

\* C5 witness: the session of a host with a stored token has expired and an
\* authenticated call for it has just been answered with the login page.
C5_Witness ==
    /\ lastCall.op \in AuthOps
    /\ session[lastCall.host] = NoStr
    /\ tokenFilename(lastCall.host) \in DOMAIN cliFiles
    /\ Len(sent) = 1
    /\ recv # << >>
    /\ IsLoginPage(recv[1])

\* C6: an authenticated call for a host that has no token file fails with
\* the "no session" error and sends no HTTP request.
C6_NoRecordNoRequest ==
    (lastCall.op \in AuthOps /\ tokenFilename(lastCall.host) \notin DOMAIN cliFiles)
        => (lastCall.err = ErrNoSession /\ sent = << >>)

(***************************************************************************)
(* Library client (pkg/netgear): pure helpers of the login                 *)
(***************************************************************************)
\* strings.HasPrefix
HasPrefix(s, prefix) ==
    Len(s) >= Len(prefix) /\ SubSeq(s, 1, Len(prefix)) = prefix

\* strings.Index: position of the first occurrence of sub in s, 0 when absent
RECURSIVE IndexFrom(_, _, _)
IndexFrom(s, sub, i) ==
    IF i + Len(sub) - 1 > Len(s) THEN 0
    ELSE IF SubSeq(s, i, i + Len(sub) - 1) = sub THEN i
    ELSE IndexFrom(s, sub, i + 1)

Index(s, sub) == IndexFrom(s, sub, 1)

SidPrefix == <<"S", "I", "D", "=">>

\* an extraction that takes the value of whatever cookie comes first
extractFirstCookieValue(setCookieHeader) ==
    LET eq     == IndexOf(setCookieHeader, "=")
        sidVal == SubSeq(setCookieHeader, eq + 1, Len(setCookieHeader))
        idx    == IndexOf(sidVal, ";")
    IN  IF eq = 0 THEN NoStr
        ELSE IF idx # 0 THEN SubSeq(sidVal, 1, idx - 1) ELSE sidVal

\* the session token of a Set-Cookie header; the empty string when absent
extractSessionToken(setCookieHeader) ==
    IF HasPrefix(setCookieHeader, SidPrefix)
    THEN LET sidVal == SubSeq(setCookieHeader, Len(SidPrefix) + 1, Len(setCookieHeader))
             idx    == IndexOf(sidVal, ";")
         IN  IF idx # 0 THEN SubSeq(sidVal, 1, idx - 1) ELSE sidVal
    ELSE NoStr

\* the value of the attribute that follows marker, up to the closing quote;
\* the empty string when the marker is absent
AttrAfter(content, marker) ==
    LET i    == Index(content, marker)
        rest == SubSeq(content, i + Len(marker), Len(content))
        q    == IndexOf(rest, "\"")
    IN  IF i = 0 \/ q = 0 THEN NoStr ELSE SubSeq(rest, 1, q - 1)

\* the value of the element with id="rand" of the login page
RandMarker == <<"i", "d", "=", "\"", "r", "a", "n", "d", "\"", " ", "v", "a", "l", "u", "e", "=", "\"">>
ExtractSeedValue(content) == AttrAfter(content, RandMarker)

\* the value of the hidden input field named Gambit of a GS316 login reply
GambitMarker == <<"n", "a", "m", "e", "=", "\"", "G", "a", "m", "b", "i", "t", "\"", " ", "v", "a", "l", "u", "e", "=", "\"">>
extractGambitToken(content) == AttrAfter(content, GambitMarker)

\* the model names DetectFromHTML looks for, most specific first
specificModels == << GS316EPP, GS308EPP, GS305EPP, GS316EP, GS308EP, GS305EP >>

\* a detection that returns the first of the names in catalogue order
RECURSIVE FirstModelByCatalogue(_, _)
FirstModelByCatalogue(htmlContent, i) ==
    IF i > 6 THEN NoStr
    ELSE IF Contains(htmlContent, << GS305EP, GS305EPP, GS308EP, GS308EPP, GS316EP, GS316EPP >>[i])
    THEN << GS305EP, GS305EPP, GS308EP, GS308EPP, GS316EP, GS316EPP >>[i]
    ELSE FirstModelByCatalogue(htmlContent, i + 1)

RECURSIVE FirstModelIn(_, _)
FirstModelIn(htmlContent, i) ==
    IF i > Len(specificModels) THEN NoStr
    ELSE IF Contains(htmlContent, specificModels[i]) THEN specificModels[i]
    ELSE FirstModelIn(htmlContent, i + 1)

\* a detection that knows the specific model names only
DetectSpecificOnly(htmlContent) == FirstModelIn(htmlContent, 1)

DetectFromHTML(htmlContent) ==
    LET model == FirstModelIn(htmlContent, 1)
    IN  IF model # NoStr THEN model
        ELSE IF \/ Contains(htmlContent, <<"R", "e", "d", "i", "r", "e", "c", "t", " ", "t", "o", " ", "L", "o", "g", "i", "n">>)
                \/ Contains(htmlContent, <<"r", "e", "d", "i", "r", "e", "c", "t">>)
        THEN GS30xEPx
        ELSE NoStr

RECURSIVE MergeFrom(_, _, _)
MergeFrom(password, seedValue, i) ==
    IF i > Len(password) /\ i > Len(seedValue) THEN << >>
    ELSE (IF i <= Len(password) THEN << password[i] >> ELSE << >>)
         \o (IF i <= Len(seedValue) THEN << seedValue[i] >> ELSE << >>)
         \o MergeFrom(password, seedValue, i + 1)

\* a merge that appends the seed to the password
concatMerge(password, seedValue) == password \o seedValue

\* a merge that starts with the seed
seedFirstMerge(password, seedValue) == MergeFrom(seedValue, password, 1)

specialMerge(password, seedValue) == MergeFrom(password, seedValue, 1)

\* the hexadecimal MD5 digest, kept as an injective image of the digested
\* string (two different strings never share a digest)
Md5Hex(s) == << "md5" >> \o s

EncryptPasswordWithSeed(password, seedValue) ==
    Md5Hex(specialMerge(password, seedValue))

(***************************************************************************)
(* EndpointRegistry                                                        *)
(***************************************************************************)
EndpointLogin        == "login"
EndpointPOEStatus    == "poe_status"
EndpointPOESettings  == "poe_settings"
EndpointPOEUpdate    == "poe_update"
EndpointPortStatus   == "port_status"
EndpointPortSettings == "port_settings"
EndpointPortUpdate   == "port_update"
EndpointDashboard    == "dashboard"

EndpointTypes ==
    { EndpointLogin, EndpointPOEStatus, EndpointPOESettings, EndpointPOEUpdate,
      EndpointPortStatus, EndpointPortSettings, EndpointPortUpdate, EndpointDashboard }

EndpointInfo(url, supported, method) ==
    [URL |-> url, Supported |-> supported, Method |-> method]

\* a registry of the GS30x series in which the port update is taken to exist
getGS30xEndpointWithPortUpdate(endpointType) ==
    CASE endpointType = EndpointLogin        -> EndpointInfo(LoginCgi, TRUE, "POST")
      [] endpointType = EndpointPOEStatus    -> EndpointInfo(<<"/", "g", "e", "t", "P", "o", "e", "P", "o", "r", "t", "S", "t", "a", "t", "u", "s", ".", "c", "g", "i">>, TRUE, "GET")
      [] endpointType = EndpointPOESettings  -> EndpointInfo(<<"/", "P", "o", "E", "P", "o", "r", "t", "C", "o", "n", "f", "i", "g", ".", "c", "g", "i">>, TRUE, "GET")
      [] endpointType = EndpointPOEUpdate    -> EndpointInfo(<<"/", "P", "o", "E", "P", "o", "r", "t", "C", "o", "n", "f", "i", "g", ".", "c", "g", "i">>, TRUE, "POST")
      [] endpointType = EndpointPortStatus   -> EndpointInfo(DashboardCgi, FALSE, "GET")
      [] endpointType = EndpointPortSettings -> EndpointInfo(DashboardCgi, FALSE, "GET")
      [] endpointType = EndpointPortUpdate   -> EndpointInfo(<<"/", "P", "o", "r", "t", "C", "o", "n", "f", "i", "g", ".", "c", "g", "i">>, TRUE, "POST")
      [] endpointType = EndpointDashboard    -> EndpointInfo(DashboardCgi, TRUE, "GET")
      [] OTHER                               -> EndpointInfo(NoStr, FALSE, "")

getGS30xEndpoint(endpointType) ==
    CASE endpointType = EndpointLogin        -> EndpointInfo(LoginCgi, TRUE, "POST")
      [] endpointType = EndpointPOEStatus    -> EndpointInfo(<<"/", "g", "e", "t", "P", "o", "e", "P", "o", "r", "t", "S", "t", "a", "t", "u", "s", ".", "c", "g", "i">>, TRUE, "GET")
      [] endpointType = EndpointPOESettings  -> EndpointInfo(<<"/", "P", "o", "E", "P", "o", "r", "t", "C", "o", "n", "f", "i", "g", ".", "c", "g", "i">>, TRUE, "GET")
      [] endpointType = EndpointPOEUpdate    -> EndpointInfo(<<"/", "P", "o", "E", "P", "o", "r", "t", "C", "o", "n", "f", "i", "g", ".", "c", "g", "i">>, TRUE, "POST")
      [] endpointType = EndpointPortStatus   -> EndpointInfo(DashboardCgi, FALSE, "GET")
      [] endpointType = EndpointPortSettings -> EndpointInfo(DashboardCgi, FALSE, "GET")
      [] endpointType = EndpointPortUpdate   -> EndpointInfo(<<"/", "P", "o", "r", "t", "C", "o", "n", "f", "i", "g", ".", "c", "g", "i">>, FALSE, "POST")
      [] endpointType = EndpointDashboard    -> EndpointInfo(DashboardCgi, TRUE, "GET")
      [] OTHER                               -> EndpointInfo(NoStr, FALSE, "")

getGS316Endpoint(endpointType) ==
    CASE endpointType = EndpointLogin        -> EndpointInfo(LoginCgi, TRUE, "POST")
      [] endpointType = EndpointPOEStatus    -> EndpointInfo(<<"/", "i", "s", "s", "/", "s", "p", "e", "c", "i", "f", "i", "c", "/", "p", "o", "e", "P", "o", "r", "t", "S", "t", "a", "t", "u", "s", ".", "h", "t", "m", "l">>, TRUE, "GET")
      [] endpointType = EndpointPOESettings  -> EndpointInfo(<<"/", "i", "s", "s", "/", "s", "p", "e", "c", "i", "f", "i", "c", "/", "p", "o", "e", "P", "o", "r", "t", "C", "o", "n", "f", ".", "h", "t", "m", "l">>, TRUE, "GET")
      [] endpointType = EndpointPOEUpdate    -> EndpointInfo(<<"/", "i", "s", "s", "/", "s", "p", "e", "c", "i", "f", "i", "c", "/", "p", "o", "e", "P", "o", "r", "t", "C", "o", "n", "f", ".", "h", "t", "m", "l">>, TRUE, "POST")
      [] endpointType = EndpointPortStatus   -> EndpointInfo(<<"/", "i", "s", "s", "/", "s", "p", "e", "c", "i", "f", "i", "c", "/", "i", "n", "t", "e", "r", "f", "a", "c", "e", ".", "h", "t", "m", "l">>, TRUE, "GET")
      [] endpointType = EndpointPortSettings -> EndpointInfo(<<"/", "i", "s", "s", "/", "s", "p", "e", "c", "i", "f", "i", "c", "/", "i", "n", "t", "e", "r", "f", "a", "c", "e", ".", "h", "t", "m", "l">>, TRUE, "GET")
      [] endpointType = EndpointPortUpdate   -> EndpointInfo(<<"/", "i", "s", "s", "/", "s", "p", "e", "c", "i", "f", "i", "c", "/", "i", "n", "t", "e", "r", "f", "a", "c", "e", ".", "h", "t", "m", "l">>, TRUE, "POST")
      [] endpointType = EndpointDashboard    -> EndpointInfo(DashboardHtml, TRUE, "GET")
      [] OTHER                               -> EndpointInfo(NoStr, FALSE, "")

\* EndpointRegistry.GetEndpoint of the registry built for model
GetEndpoint(model, endpointType) ==
    IF IsModel30x(model) THEN getGS30xEndpoint(endpointType)
    ELSE IF IsModel316(model) THEN getGS316Endpoint(endpointType)
    ELSE EndpointInfo(NoStr, FALSE, "")

IsEndpointSupported(model, endpointType) == GetEndpoint(model, endpointType).Supported

\* string(er.model)
ModelString(model) ==
    CASE model = GS30xEPx -> "GS30xEPx"
      [] model = GS305EP  -> "GS305EP"
      [] model = GS305EPP -> "GS305EPP"
      [] model = GS308EP  -> "GS308EP"
      [] model = GS308EPP -> "GS308EPP"
      [] model = GS316EP  -> "GS316EP"
      [] model = GS316EPP -> "GS316EPP"
      [] OTHER            -> ""

\* the message of the error ValidateEndpoint builds
NotSupportedError(model, endpointType) ==
    endpointType \o " operation not supported on " \o ModelString(model) \o " model"

\* a validation that rejects only the operations without a URL
ValidateEndpointByUrl(model, endpointType) ==
    IF GetEndpoint(model, endpointType).URL = NoStr
    THEN NotSupportedError(model, endpointType)
    ELSE Nil

\* EndpointRegistry.ValidateEndpoint: Nil, or the operation error
ValidateEndpoint(model, endpointType) ==
    IF ~GetEndpoint(model, endpointType).Supported
    THEN NotSupportedError(model, endpointType)
    ELSE Nil

(***************************************************************************)
(* The switches during a login                                             *)
(***************************************************************************)
Response(setCookie, body) == [setCookie |-> setCookie, body |-> body]

\* the password the switches are configured with, and the passwords tried
SwitchPassword == <<"p", "w">>
Passwords      == { <<"p", "w">>, <<"n", "o">> }

\* the root page of a switch
RootPage(host) ==
    IF IsModel316(SwitchModel(host))
    THEN <<"<", "h", "1", ">", "G", "S", "3", "1", "6", "E", "P", "P", "<", "/", "h", "1", ">">>
    ELSE <<"<", "p", ">", "R", "e", "d", "i", "r", "e", "c", "t", " ", "t", "o", " ", "L", "o", "g", "i", "n">>

\* the login page, with the seed the switch issues or without any
Seed             == <<"1", "2">>
LoginPageSeeded  == <<"<", "i", "n", "p", "u", "t", " ", "i", "d", "=", "\"", "r", "a", "n", "d", "\"", " ", "v", "a", "l", "u", "e", "=", "\"", "1", "2", "\"", ">">>
LoginPageNoSeed  == <<"<", "f", "o", "r", "m", ">", "<", "/", "f", "o", "r", "m", ">">>

\* what happens around one login: where the transport fails (at) and how,
\* whether the login page carries a seed, the token the switch would issue,
\* and whether its reply carries further cookie attributes
LoginFailures == {"connection refused", "context canceled"}
IssuedTokens  == { <<"a">> }
LoginEnv(at, how, seeded, token, attrs) ==
    [at |-> at, how |-> how, seeded |-> seeded, token |-> token, attrs |-> attrs]

\* the logins tried: a password and what happens around the call
LoginInputs ==
    { << p, LoginEnv("none", "", TRUE, t, a) >> :
          p \in Passwords, t \in IssuedTokens, a \in BOOLEAN }
    \cup { << SwitchPassword, LoginEnv("none", "", FALSE, << "a" >>, FALSE) >> }
    \cup { << SwitchPassword, LoginEnv(at, how, TRUE, << "a" >>, FALSE) >> :
               at \in {"detect", "seed", "post"}, how \in LoginFailures }

\* the login request: the credential travels in the form body
LoginPost(host, url, credential) ==
    [method |-> "POST", host |-> host, url |-> url, cookie |-> NoStr,
     body |-> credential]

\* the switch accepts the credential computed from its password and seed
LoginAccepted(credential) ==
    credential = EncryptPasswordWithSeed(SwitchPassword, Seed)

\* the seed the switch issues with its login page: Seed unless the
\* circumstances of the login name another
IssuedSeed(e) == IF "seed" \in DOMAIN e THEN e.seed ELSE Seed

LoginPageWithSeed(seed) ==
    <<"<", "i", "n", "p", "u", "t", " ", "i", "d", "=", "\"", "r", "a", "n", "d", "\"", " ", "v", "a", "l", "u", "e", "=", "\"">> \o seed \o <<"\"", ">">>

\* the switch accepts the credential computed from its password and the
\* seed it has just issued
AcceptedWith(credential, e) ==
    credential = EncryptPasswordWithSeed(SwitchPassword, IssuedSeed(e))

\* the reply of a switch to a login POST
LoginReply(host, credential, e) ==
    IF AcceptedWith(credential, e)
    THEN IF IsModel316(SwitchModel(host))
         THEN Response(NoStr, <<"<", "i", "n", "p", "u", "t", " ", "n", "a", "m", "e", "=", "\"", "G", "a", "m", "b", "i", "t", "\"", " ", "v", "a", "l", "u", "e", "=", "\"">> \o e.token \o <<"\"", ">">>)
         ELSE Response(SidCookie(e.token) \o (IF e.attrs THEN <<";", "P", "a", "t", "h", "=", "/">> ELSE NoStr),
                       DataPage)
    ELSE IF IsModel316(SwitchModel(host))
         THEN Response(NoStr, LoginPage316)
         ELSE Response(IF e.attrs THEN <<"l", "a", "n", "g", "=", "e", "n">> ELSE NoStr, LoginPage30x)

(***************************************************************************)
(* Client: Login, Logout, IsAuthenticated, authenticated requests          *)
(***************************************************************************)
ErrModelNotDetected   == "model not detected"
ErrSeedNotFound       == "seed not found"
ErrInvalidCredentials == "invalid credentials"
ErrNotAuthenticated   == "not authenticated"
ErrSessionExpired     == "session expired"

\* the host has a TokenRecord the store returns
IsAuthenticated(host) == TMGet(host).err = Nil

\* what a call of the client leaves behind: its error, the requests it
\* sent, the responses it got, the record it stored (token, model) if any,
\* and the session the switch opened if any
Outcome(err, reqs, resps, token, model, issued) ==
    [err |-> err, sent |-> reqs, recv |-> resps,
     token |-> token, model |-> model, issued |-> issued]

\* a login that keeps the credential it posted as the token of the record
finishLoginKeepsCredential(model, reqs, resps, token, issued) ==
    IF token = NoStr
    THEN Outcome(ErrInvalidCredentials, reqs, resps, NoStr, NoStr, issued)
    ELSE Outcome(Nil, reqs, resps, reqs[Len(reqs)].body, model, issued)

\* the end of a login: the token read from the reply of the switch, by the
\* family's extraction; no token means the credentials were not accepted
finishLogin(model, reqs, resps, token, issued) ==
    IF token = NoStr
    THEN Outcome(ErrInvalidCredentials, reqs, resps, NoStr, NoStr, issued)
    ELSE Outcome(Nil, reqs, resps, token, model, issued)

readLoginReply(model, reqs, resps, reply, issued) ==
    finishLogin(model, reqs, resps \o << reply >>,
                IF IsModel316(model) THEN extractGambitToken(reply.body)
                ELSE extractSessionToken(reply.setCookie),
                issued)

\* the one login POST of a call
postCredential(host, e, model, reqs, resps, cred) ==
    IF e.at = "post"
    THEN Outcome(e.how, reqs, resps, NoStr, NoStr, NoStr)
    ELSE readLoginReply(model, reqs, resps, LoginReply(host, cred, e),
                        IF AcceptedWith(cred, e) THEN e.token ELSE NoStr)

\* a login that computes its credential from the seed of an earlier page
sendCredentialStaleSeed(host, password, e, model, reqs, resps, seed) ==
    IF seed = NoStr
    THEN Outcome(ErrSeedNotFound, reqs, resps, NoStr, NoStr, NoStr)
    ELSE postCredential(host, e, model,
             reqs \o << LoginPost(host, IF IsModel316(model) THEN RedirectHtml ELSE LoginCgi,
                                  EncryptPasswordWithSeed(password, Seed)) >>,
             resps, EncryptPasswordWithSeed(password, Seed))

\* a login that submits a credential whatever the seed extraction gave
sendCredentialAnySeed(host, password, e, model, reqs, resps, seed) ==
    postCredential(host, e, model,
        reqs \o << LoginPost(host, IF IsModel316(model) THEN RedirectHtml ELSE LoginCgi,
                             EncryptPasswordWithSeed(password, seed)) >>,
        resps, EncryptPasswordWithSeed(password, seed))

\* the credential computed from the password and the seed of the login page
sendCredential(host, password, e, model, reqs, resps, seed) ==
    IF seed = NoStr
    THEN Outcome(ErrSeedNotFound, reqs, resps, NoStr, NoStr, NoStr)
    ELSE postCredential(host, e, model,
             reqs \o << LoginPost(host, IF IsModel316(model) THEN RedirectHtml ELSE LoginCgi,
                                  EncryptPasswordWithSeed(password, seed)) >>,
             resps, EncryptPasswordWithSeed(password, seed))

readLoginPage(host, password, e, model, reqs, resps, page) ==
    IF e.at = "seed"
    THEN Outcome(e.how, reqs, resps, NoStr, NoStr, NoStr)
    ELSE sendCredential(host, password, e, model, reqs,
                        resps \o << Response(NoStr, page) >>, ExtractSeedValue(page))

\* the seed fetch: the login page of the family
fetchSeed(host, password, e, model, reqs, resps) ==
    IF model = NoStr
    THEN Outcome(ErrModelNotDetected, reqs, resps, NoStr, NoStr, NoStr)
    ELSE readLoginPage(host, password, e, model,
             reqs \o << Request("GET", host,
                                IF IsModel316(model) THEN WmiLogin ELSE LoginCgi, NoStr) >>,
             resps, IF e.seeded THEN LoginPageWithSeed(IssuedSeed(e)) ELSE LoginPageNoSeed)

\* the family of the host: that of its record, else detected from the root
\* page of the switch
loginWithRecord(host, password, e, rec) ==
    IF rec.err = Nil
    THEN fetchSeed(host, password, e, rec.model, << >>, << >>)
    ELSE IF e.at = "detect"
    THEN Outcome(e.how, << Request("GET", host, Root, NoStr) >>, << >>, NoStr, NoStr, NoStr)
    ELSE fetchSeed(host, password, e, DetectFromHTML(RootPage(host)),
                   << Request("GET", host, Root, NoStr) >>,
                   << Response(NoStr, RootPage(host)) >>)

Login(host, password, e) == loginWithRecord(host, password, e, TMGet(host))

\* the response to an authenticated request is the login page when the
\* switch no longer knows the session
readAuthenticatedResponse(req, body) ==
    Outcome(IF CheckIsLoginRequired(body) THEN ErrSessionExpired ELSE Nil,
            << req >>, << Response(NoStr, body) >>, NoStr, NoStr, NoStr)

\* one request carrying the token of the record
sendAuthenticatedRequest(req, net) ==
    IF net # "ok"
    THEN Outcome(net, << req >>, << >>, NoStr, NoStr, NoStr)
    ELSE readAuthenticatedResponse(req, SwitchBody(req))

\* the token travels as the SID cookie (GS30x), or as the Gambit parameter
\* of the URL (GS316)
authenticatedRequest(rec, host, method, endpoint) ==
    IF IsModel316(rec.model)
    THEN Request(method, host,
                 endpoint \o <<"?", "G", "a", "m", "b", "i", "t", "=">> \o rec.token,
                 GambitCookie(rec.token))
    ELSE Request(method, host, endpoint, SidCookie(rec.token))

requestWithRecord(rec, host, method, endpoint, net) ==
    IF rec.err # Nil
    THEN Outcome(ErrNotAuthenticated, << >>, << >>, NoStr, NoStr, NoStr)
    ELSE sendAuthenticatedRequest(authenticatedRequest(rec, host, method, endpoint), net)

\* one authenticated request of the client
makeAuthenticatedRequestWithFallback(host, method, endpoint, net) ==
    requestWithRecord(TMGet(host), host, method, endpoint, net)

(***************************************************************************)
(* PortManager                                                             *)
(***************************************************************************)
MaxUpdates == 2

\* the message of the first error pattern found in a response, in the forms
\* error="..." and alert("..."); the empty string when there is none
ExtractErrorMessage(content) ==
    LET byError == AttrAfter(content, <<"e", "r", "r", "o", "r", "=", "\"">>)
        byAlert == AttrAfter(content, <<"a", "l", "e", "r", "t", "(", "\"">>)
    IN  IF byError # NoStr THEN TrimSpace(byError)
        ELSE IF byAlert # NoStr THEN TrimSpace(byAlert)
        ELSE NoStr

\* one pass of the loop of UpdatePort: the outcome o of the updates applied
\* so far, extended by the request x of this update
updateStep(o, x) ==
    Outcome(IF x.err # Nil THEN x.err
            ELSE IF ExtractErrorMessage(x.recv[1].body) # NoStr
            THEN "update failed for port"
            ELSE Nil,
            o.sent \o x.sent, o.recv \o x.recv, NoStr, NoStr, NoStr)

\* the loop of UpdatePort over the updates still to apply, one transport
\* outcome per update; the first error ends it
RECURSIVE ApplyUpdates(_, _, _, _)
ApplyUpdates(host, endpoint, nets, o) ==
    IF nets = << >> \/ o.err # Nil
    THEN o
    ELSE ApplyUpdates(host, endpoint, Tail(nets),
             updateStep(o, makeAuthenticatedRequestWithFallback(host, "POST", endpoint,
                                                                 Head(nets))))

\* the result of an operation once the registry has validated its endpoint
Validated(err, x) ==
    IF err # Nil THEN Outcome(err, << >>, << >>, NoStr, NoStr, NoStr) ELSE x

\* an UpdatePort that asks the registry before it looks for the record
UpdatePortValidateFirst(host, nets) ==
    Validated(ValidateEndpoint(TMGet(host).model, EndpointPortUpdate),
              IF ~IsAuthenticated(host)
              THEN Outcome(ErrNotAuthenticated, << >>, << >>, NoStr, NoStr, NoStr)
              ELSE IF Len(nets) = 0
              THEN Outcome("no updates provided", << >>, << >>, NoStr, NoStr, NoStr)
              ELSE ApplyUpdates(host, GetEndpoint(TMGet(host).model, EndpointPortUpdate).URL,
                                nets, Outcome(Nil, << >>, << >>, NoStr, NoStr, NoStr)))

\* PortManager.UpdatePort with Len(nets) updates
UpdatePort(host, nets) ==
    IF ~IsAuthenticated(host)
    THEN Outcome(ErrNotAuthenticated, << >>, << >>, NoStr, NoStr, NoStr)
    ELSE IF Len(nets) = 0
    THEN Outcome("no updates provided", << >>, << >>, NoStr, NoStr, NoStr)
    ELSE Validated(ValidateEndpoint(TMGet(host).model, EndpointPortUpdate),
                   ApplyUpdates(host, GetEndpoint(TMGet(host).model, EndpointPortUpdate).URL,
                                nets, Outcome(Nil, << >>, << >>, NoStr, NoStr, NoStr)))

\* PortManager.GetSettings
GetSettings(host, net) ==
    IF ~IsAuthenticated(host)
    THEN Outcome(ErrNotAuthenticated, << >>, << >>, NoStr, NoStr, NoStr)
    ELSE Validated(ValidateEndpoint(TMGet(host).model, EndpointPortSettings),
                   makeAuthenticatedRequestWithFallback(host, "GET",
                       GetEndpoint(TMGet(host).model, EndpointPortSettings).URL, net))

(***************************************************************************)
(* Library calls                                                           *)
(***************************************************************************)
\* the call that has just returned, with the number n of its inputs
LibResult(op, host, n, x) ==
    [op |-> op, host |-> host, inTok |-> NoStr, inModel |-> NoStr,
     err |-> x.err, token |-> x.token, model |-> x.model, n |-> n]

\* a Login call that ends as x: the record is stored when it succeeded
LibLogin(host, x) ==
    /\ lastCall' = LibResult("Login", host, 1, x)
    /\ sent' = x.sent
    /\ recv' = x.recv
    /\ session' = IF x.issued # NoStr
                  THEN [session EXCEPT ![host] = x.issued]
                  ELSE session
    /\ IF x.err # Nil THEN UNCHANGED <<files, mem>>
       ELSE IF mgrKind = "file"
       THEN files' = FileStoreToken(host, x.token, x.model) /\ UNCHANGED mem
       ELSE mem' = MemStoreToken(host, x.token, x.model) /\ UNCHANGED files
    /\ dirs' = IF x.err = Nil /\ mgrKind = "file" THEN MkdirAll(dirs, "cache", "0700")
               ELSE dirs
    /\ UNCHANGED <<mgrKind, inflight, storeCalls, cliVars>>

\* Logout deletes the record of the host
LibLogout(host) ==
    /\ IF mgrKind = "file"
       THEN /\ files' = FileDeleteToken(host)
            /\ lastCall' = Call("Logout", host, NoStr, NoStr,
                                Result(FileDeleteTokenErr(host), NoStr, NoStr))
            /\ UNCHANGED mem
       ELSE /\ mem' = MemDeleteToken(host)
            /\ lastCall' = Call("Logout", host, NoStr, NoStr, Result(Nil, NoStr, NoStr))
            /\ UNCHANGED files
    /\ sent' = << >>
    /\ recv' = << >>
    /\ UNCHANGED <<mgrKind, dirs, inflight, storeCalls, cliVars, session>>

\* an UpdatePort call with n updates that ends as x
LibUpdatePort(host, n, x) ==
    /\ lastCall' = LibResult("UpdatePort", host, n, x)
    /\ sent' = x.sent
    /\ recv' = x.recv
    /\ UNCHANGED <<storeVars, cliVars, session>>

\* a GetSettings call that ends as x
LibGetSettings(host, x) ==
    /\ lastCall' = LibResult("GetSettings", host, 1, x)
    /\ sent' = x.sent
    /\ recv' = x.recv
    /\ UNCHANGED <<storeVars, cliVars, session>>

InitLib ==
    /\ mgrKind \in {"file", "memory"}
    /\ files = << >>
    /\ mem = << >>
    /\ lastCall = NoCall
    /\ cliFiles = << >>
    /\ args = NoArgs
    /\ session = [h \in Hosts |-> NoStr]
    /\ sent = << >>
    /\ recv = << >>
    /\ inflight = [p \in Procs |-> Idle]
    /\ storeCalls = {}
    /\ dirs = [cache |-> NoDir, config |-> NoDir]

\* logins, logouts and the administration of the token store
NextLogin ==
    \/ \E h \in Hosts, i \in LoginInputs : LibLogin(h, Login(h, i[1], i[2]))
    \/ \E h \in Hosts : LibLogout(h)
    \/ \E h \in Hosts : DeleteToken(h)
    \/ ClearAllTokens

SpecLogin == InitLib /\ [][NextLogin]_vars

\* the port operations of clients that log in and out
NextPort ==
    \/ \E h \in Hosts, p \in Passwords :
           LibLogin(h, Login(h, p, LoginEnv("none", "", TRUE, << "a" >>, FALSE)))
    \/ \E h \in Hosts : LibLogout(h)
    \/ \E h \in Hosts, nets \in SeqsUpTo(NetOutcomes, MaxUpdates) :
           LibUpdatePort(h, Len(nets), UpdatePort(h, nets))
    \/ \E h \in Hosts, n \in NetOutcomes : LibGetSettings(h, GetSettings(h, n))
    \/ \E h \in Hosts : SessionExpire(h)

SpecPort == InitLib /\ [][NextPort]_vars

(***************************************************************************)
(* Properties of the library client                                        *)
(***************************************************************************)
\* the token store after the step holds a record stored under this address
HasRecordNext(address) ==
    IF mgrKind = "file"
    THEN \E n \in DOMAIN files' : files'[n].by = address
    ELSE address \in DOMAIN mem'

\* C1: a Login call that returns an error writes nothing to the token store,
\* and when the store holds no record of that host, the host is not
\* authenticated after the call.
C1_FailedLoginStoresNothing ==
    /\ [][(lastCall'.op = "Login" /\ lastCall'.err # Nil)
              => (files' = files /\ mem' = mem)]_vars
    /\ []((/\ lastCall.op = "Login"
           /\ lastCall.err # Nil
           /\ ~HasRecord(lastCall.host))
              => ~IsAuthenticated(lastCall.host))

\* C2: after a Login that returned no error the token store holds a record
\* of that host and the host is authenticated, and the record of a host
\* stays in the store until a Logout or a deletion for that host (or the
\* clearing of the whole store).
C2_LoginKeepsRecord ==
    /\ []((lastCall.op = "Login" /\ lastCall.err = Nil)
              => (HasRecord(lastCall.host) /\ IsAuthenticated(lastCall.host)))
    /\ [][\A h \in Hosts :
            (HasRecord(h) /\ ~HasRecordNext(h))
                => \/ lastCall'.op \in {"Logout", "DeleteToken"} /\ lastCall'.host = h
                   \/ lastCall'.op = "ClearAllTokens"]_vars

\* the login POSTs among the requests of a call
LoginPosts(reqs) == { i \in DOMAIN reqs : IsLoginPost(reqs[i]) }

\* the response carries a session token of either family
CarriesToken(resp) ==
    \/ Contains(resp.setCookie, SidPrefix)
    \/ Contains(resp.body, GambitMarker)

\* the last request of the call is a login POST and its response arrived
LoginPostAnswered ==
    /\ sent # << >>
    /\ Len(recv) = Len(sent)
    /\ IsLoginPost(sent[Len(sent)])

\* C3: a Login call submits at most one login POST, and when the response
\* to that POST carries no session token the call returns
\* ErrInvalidCredentials after exactly one submission.
C3_NoTokenOnePost ==
    lastCall.op = "Login"
        => /\ Cardinality(LoginPosts(sent)) <= 1
           /\ (LoginPostAnswered /\ ~CarriesToken(recv[Len(recv)]))
                  => (/\ lastCall.err = ErrInvalidCredentials
                      /\ Cardinality(LoginPosts(sent)) = 1)

\* C3 witness: a Login for a GS30x switch was answered with a cookie that
\* is no session cookie and returned ErrInvalidCredentials.
C3_Witness ==
    /\ lastCall.op = "Login"
    /\ lastCall.err = ErrInvalidCredentials
    /\ LoginPostAnswered
    /\ recv[Len(recv)].setCookie # NoStr
    /\ ~CarriesToken(recv[Len(recv)])

\* C7: a port update with at least one update, or a port settings read, for
\* an authenticated host of the GS30x family returns the "operation not
\* supported" error of that operation, and no call for such a host sends an
\* HTTP request.
C7_UnsupportedNoRequest ==
    (/\ lastCall.op \in {"UpdatePort", "GetSettings"}
     /\ IsAuthenticated(lastCall.host)
     /\ IsModel30x(TMGet(lastCall.host).model))
        => /\ sent = << >>
           /\ lastCall.err # Nil
           /\ (lastCall.op = "UpdatePort" /\ lastCall.n > 0)
                  => lastCall.err = NotSupportedError(TMGet(lastCall.host).model,
                                                      EndpointPortUpdate)
           /\ lastCall.op = "GetSettings"
                  => lastCall.err = NotSupportedError(TMGet(lastCall.host).model,
                                                      EndpointPortSettings)

\* C7 witness: a port update with updates for an authenticated GS30x host
\* whose switch session is open was rejected without a request.
C7_Witness ==
    /\ lastCall.op = "UpdatePort"
    /\ lastCall.n > 0
    /\ IsAuthenticated(lastCall.host)
    /\ IsModel30x(TMGet(lastCall.host).model)
    /\ session[lastCall.host] # NoStr
    /\ lastCall.err = NotSupportedError(GS30xEPx, EndpointPortUpdate)
    /\ sent = << >>

(***************************************************************************)
(* Token files changed behind the manager, and records of any model        *)
(***************************************************************************)
\* the family name of the content a test leaves in a token file
CorruptedModel == <<"C", "O", "R", "R", "U", "P", "T", "E", "D">>

\* the models StoreToken is called with: Model is a string type, any value
\* can be passed
StoredModels == Families \cup {NoStr, CorruptedModel}

\* contents written into an existing token file: an unrecognized family, no
\* separator, nothing at all
CorruptContents ==
    { CorruptedModel \o << ":" >> \o << "a" >>, GS308EP \o << "a" >>, << >> }

\* os.WriteFile on the token file of the cache directory, by a test or
\* another program
CorruptTokenFile(address, content) ==
    /\ mgrKind = "file"
    /\ getTokenFilename(address) \in DOMAIN files
    /\ files' = [files EXCEPT ![getTokenFilename(address)].content = content]
    /\ lastCall' = Call("CorruptTokenFile", address, NoStr, NoStr, Result(Nil, NoStr, NoStr))
    /\ UNCHANGED <<mgrKind, dirs, inflight, storeCalls, mem, cliVars, netVars>>

NextCorrupt ==
    \/ \E h \in Hosts : GetToken(h)
    \/ \E h \in Hosts, m \in StoredModels : StoreToken(h, << "a" >>, m)
    \/ \E h \in Hosts : DeleteToken(h)
    \/ \E h \in Hosts, c \in CorruptContents : CorruptTokenFile(h, c)

SpecCorrupt == InitStore /\ [][NextCorrupt]_vars

\* the errors GetToken reports for a token file it cannot use
CorruptionErrors ==
    {"token file is empty", "malformed token file", "unknown model in token file"}

\* the record lacks the separator, or what precedes it is no family
IsCorrupt(content) ==
    \/ ~Contains(content, << ":" >>)
    \/ ~IsSupported(SubSeq(content, 1, IndexOf(content, ":") - 1))

\* C11: GetToken on a token file without separator or with an unrecognized
\* family returns a corruption error, which is never the error returned
\* when the host has no token file, and it returns a result (no panic).
C11_CorruptIsNotNotFound ==
    (mgrKind = "file" /\ lastCall.op = "GetToken")
        => /\ getTokenFilename(lastCall.host) \notin DOMAIN files
                  => lastCall.err = "failed to read token file"
           /\ (/\ getTokenFilename(lastCall.host) \in DOMAIN files
               /\ IsCorrupt(files[getTokenFilename(lastCall.host)].content))
                  => (lastCall.err \in CorruptionErrors /\ ~NotFound(lastCall))

\* C11 witness: GetToken has read a token file that has no separator.
C11_Witness ==
    /\ mgrKind = "file"
    /\ lastCall.op = "GetToken"
    /\ getTokenFilename(lastCall.host) \in DOMAIN files
    /\ files[getTokenFilename(lastCall.host)].content = GS308EP \o << "a" >>
    /\ lastCall.err = "malformed token file"

\* C12: after a GetToken that reported corruption the record of the host is
\* deleted: the token file is gone and a further GetToken is "not found".
C12_CorruptRecordDeleted ==
    (lastCall.op = "GetToken" /\ lastCall.err \in CorruptionErrors)
        => /\ getTokenFilename(lastCall.host) \notin DOMAIN files
           /\ NotFound(TMGet(lastCall.host))

\* C13: every GetToken that returns no error, on either manager, returns a
\* recognized family with the token.
C13_GetReturnsFamily ==
    (lastCall.op = "GetToken" /\ lastCall.err = Nil) => IsSupported(lastCall.model)

(***************************************************************************)
(* Concurrent calls of a token manager.  MemoryTokenManager holds its      *)
(* mutex for the whole call.  FileTokenManager takes no lock: StoreToken   *)
(* is os.WriteFile, which opens the file with O_TRUNC (the file is empty   *)
(* from then on) and writes the content with a later system call;          *)
(* os.ReadFile and os.Remove are taken as one step each.                   *)
(***************************************************************************)
\* hosts whose file names differ
ConcHosts == {Sw1, Liquid}

\* the file after a write of data at offset 0: bytes beyond the data stay
WriteAt0(old, data) == data \o SubSeq(old, Len(data) + 1, Len(old))

\* StoreToken is called; on the file manager the call gets as far as the
\* opening of the token file
CallStoreToken(p, address, token, model) ==
    /\ inflight[p].pc = "idle"
    /\ storeCalls' = storeCalls \cup { << address, model, token >> }
    /\ IF mgrKind = "memory"
       THEN /\ mem' = MemStoreToken(address, token, model)
            /\ lastCall' = Call("StoreToken", address, token, model,
                                Result(Nil, NoStr, NoStr))
            /\ UNCHANGED <<files, inflight>>
       ELSE /\ files' = [n \in DOMAIN files \cup {getTokenFilename(address)} |->
                            IF n = getTokenFilename(address)
                            THEN [content |-> << >>, by |-> address,
                                  mode |-> WriteFileMode(files, getTokenFilename(address), "0600")]
                            ELSE files[n]]
            /\ inflight' = [inflight EXCEPT ![p] =
                                [pc |-> "write", address |-> address, token |-> token,
                                 model |-> model, unlinked |-> FALSE]]
            /\ UNCHANGED <<mem, lastCall>>
    /\ dirs' = IF mgrKind = "file" THEN MkdirAll(dirs, "cache", "0700") ELSE dirs
    /\ UNCHANGED <<mgrKind, cliVars, netVars>>

\* the write of the content and the return of StoreToken; the write of a
\* file that was removed meanwhile reaches no file of the directory
WriteTokenFile(p) ==
    /\ inflight[p].pc = "write"
    /\ files' = IF inflight[p].unlinked THEN files
                ELSE [files EXCEPT ![getTokenFilename(inflight[p].address)] =
                         [content |-> WriteAt0(@.content,
                                               inflight[p].model \o << ":" >> \o inflight[p].token),
                          by |-> inflight[p].address, mode |-> @.mode]]
    /\ inflight' = [inflight EXCEPT ![p] = Idle]
    /\ lastCall' = Call("StoreToken", inflight[p].address, inflight[p].token,
                        inflight[p].model, Result(Nil, NoStr, NoStr))
    /\ UNCHANGED <<mgrKind, dirs, mem, storeCalls, cliVars, netVars>>

\* DeleteToken while other calls are under way: a file that is open for
\* writing is unlinked from the directory
ConcDeleteToken(address) ==
    /\ IF mgrKind = "file"
       THEN /\ files' = FileDeleteToken(address)
            /\ inflight' = [p \in Procs |->
                               IF /\ inflight[p].pc = "write"
                                  /\ getTokenFilename(inflight[p].address)
                                         = getTokenFilename(address)
                               THEN [inflight[p] EXCEPT !.unlinked = TRUE]
                               ELSE inflight[p]]
            /\ lastCall' = Call("DeleteToken", address, NoStr, NoStr,
                                Result(FileDeleteTokenErr(address), NoStr, NoStr))
            /\ UNCHANGED mem
       ELSE /\ mem' = MemDeleteToken(address)
            /\ lastCall' = Call("DeleteToken", address, NoStr, NoStr,
                                Result(Nil, NoStr, NoStr))
            /\ UNCHANGED <<files, inflight>>
    /\ UNCHANGED <<mgrKind, dirs, storeCalls, cliVars, netVars>>

\* the process is interrupted while StoreToken calls are under way; the
\* cache directory stays as it is
ProcessKilled ==
    /\ \E p \in Procs : inflight[p].pc = "write"
    /\ inflight' = [p \in Procs |-> Idle]
    /\ UNCHANGED <<mgrKind, dirs, files, mem, storeCalls, lastCall, cliVars, netVars>>

NextConc ==
    \/ \E p \in Procs, h \in ConcHosts, m \in Families : CallStoreToken(p, h, << "a" >>, m)
    \/ \E p \in Procs : WriteTokenFile(p)
    \/ \E h \in ConcHosts : GetToken(h)
    \/ \E h \in ConcHosts : ConcDeleteToken(h)
    \/ ProcessKilled

SpecConc == InitStore /\ [][NextConc]_vars

\* C14: under every interleaving of concurrent GetToken, StoreToken and
\* DeleteToken calls, a GetToken returns "not found" or the family and token
\* that one single StoreToken call for that host was given.
C14_GetSeesOneStore ==
    lastCall.op = "GetToken"
        => \/ NotFound(lastCall)
           \/ /\ lastCall.err = Nil
              /\ << lastCall.host, lastCall.model, lastCall.token >> \in storeCalls

\* C15: whatever a StoreToken call is interrupted by or runs concurrently
\* with, the store never holds a partial record: what a GetToken can read
\* is always the complete record of one StoreToken call, never an empty or
\* truncated one.
C15_NoPartialRecord ==
    /\ \A n \in DOMAIN files :
           \E c \in storeCalls : files[n].content = c[2] \o << ":" >> \o c[3]
    /\ \A a \in DOMAIN mem : << a, mem[a].model, mem[a].token >> \in storeCalls

(***************************************************************************)
(* Independence of the hosts                                               *)
(***************************************************************************)
\* the records stored under this address in the given store contents
RecordsOf(fs, m, address) ==
    IF mgrKind = "file"
    THEN { fs[n].content : n \in { k \in DOMAIN fs : fs[k].by = address } }
    ELSE IF address \in DOMAIN m THEN { m[address] } ELSE {}

\* C16: a StoreToken, DeleteToken, Login or Logout for one host leaves the
\* record of every other host as it was, so that the hosts that logged in
\* keep one record each.
C16_OtherHostsUntouched ==
    [][lastCall'.op \in {"StoreToken", "DeleteToken", "Login", "Logout"}
           => \A h \in Hosts \ {lastCall'.host} :
                  RecordsOf(files', mem', h) = RecordsOf(files, mem, h)]_vars

(***************************************************************************)
(* Clients created anew                                                    *)
(***************************************************************************)
\* NewClient for a host: the client gets a token manager of the configured
\* kind (NewFileTokenManager on the same cache directory, or a fresh
\* NewMemoryTokenManager) and looks up the record of its host
NewClient(host) ==
    /\ mem' = << >>
    /\ lastCall' = Call("NewClient", host, NoStr, NoStr,
                        IF mgrKind = "file" THEN FileGetToken(host)
                        ELSE Result("token not found", NoStr, NoStr))
    /\ sent' = << >>
    /\ recv' = << >>
    /\ UNCHANGED <<mgrKind, dirs, inflight, storeCalls, files, cliVars, session>>

\* clients that log in, are created anew and log out
NextClient ==
    \/ \E h \in Hosts, p \in Passwords, t \in SwitchTokens :
           LibLogin(h, Login(h, p, LoginEnv("none", "", TRUE, t, FALSE)))
    \/ \E h \in Hosts : NewClient(h)
    \/ \E h \in Hosts : LibLogout(h)
    \/ \E h \in Hosts : SessionExpire(h)

SpecClient == InitLib /\ [][NextClient]_vars

\* C17: a client created for a host right after a successful Login for that
\* host, on the same cache directory, is authenticated with the family and
\* the token that Login stored, which is the token of the session the switch
\* holds unless that session has expired, and its creation performs no login.
C17_NewClientAuthenticated ==
    [][(/\ mgrKind = "file"
        /\ lastCall.op = "Login"
        /\ lastCall.err = Nil
        /\ lastCall'.op = "NewClient"
        /\ lastCall'.host = lastCall.host)
            => (/\ lastCall'.err = Nil
                /\ lastCall'.token = lastCall.token
                /\ lastCall'.model = lastCall.model
                /\ session'[lastCall'.host] \in {lastCall'.token, NoStr}
                /\ sent' = << >>)]_vars

\* C17 witness: a client was created on a cache directory that holds the
\* record of its host, and it is authenticated with the token of the open
\* session of a GS316 switch.
C17_Witness ==
    /\ mgrKind = "file"
    /\ lastCall.op = "NewClient"
    /\ lastCall.err = Nil
    /\ HasRecord(lastCall.host)
    /\ IsModel316(lastCall.model)
    /\ lastCall.token = << "b" >>
    /\ session[lastCall.host] = << "b" >>

(***************************************************************************)
(* Rotating token of the GS316 models                                      *)
(***************************************************************************)
QuoteOrSpace == {"\"", " ", "\t", "\n", "\r"}
HexChars     == {"0", "1", "2", "3", "4", "5", "6", "7", "8", "9",
                 "a", "b", "c", "d", "e", "f", "A", "B", "C", "D", "E", "F"}
DigitChars   == {"0", "1", "2", "3", "4", "5", "6", "7", "8", "9"}

\* the first position from i on whose character is outside the class
RECURSIVE SkipWhile(_, _, _)
SkipWhile(s, i, class) ==
    IF i > Len(s) \/ s[i] \notin class THEN i
    ELSE SkipWhile(s, i + 1, class)

\* the group captured after the separator at j, << >> when the pattern
\* word["\s]*[:=]["\s]*(class+) does not match there
CaptureAfter(s, j, k, class) ==
    IF j > Len(s) \/ s[j] \notin {":", "="} THEN << >>
    ELSE SubSeq(s, k, SkipWhile(s, k, class) - 1)

MatchAt(s, word, i, class) ==
    IF SubSeq(s, i, i + Len(word) - 1) # word THEN << >>
    ELSE CaptureAfter(s, SkipWhile(s, i + Len(word), QuoteOrSpace),
                      SkipWhile(s, SkipWhile(s, i + Len(word), QuoteOrSpace) + 1, QuoteOrSpace),
                      class)

\* regexp FindStringSubmatch: the group of the leftmost match
RECURSIVE FindStringSubmatch(_, _, _, _)
FindStringSubmatch(s, word, class, i) ==
    IF i + Len(word) - 1 > Len(s) THEN << >>
    ELSE IF MatchAt(s, word, i, class) # << >> THEN MatchAt(s, word, i, class)
    ELSE FindStringSubmatch(s, word, class, i + 1)

ExtractGambitToken(content) ==
    IF FindStringSubmatch(content, <<"G", "a", "m", "b", "i", "t">>, HexChars, 1) # << >>
    THEN FindStringSubmatch(content, <<"G", "a", "m", "b", "i", "t">>, HexChars, 1)
    ELSE IF FindStringSubmatch(content, <<"g", "a", "m", "b", "i", "t">>, HexChars, 1) # << >>
    THEN FindStringSubmatch(content, <<"g", "a", "m", "b", "i", "t">>, HexChars, 1)
    ELSE FindStringSubmatch(content, <<"r", "a", "n", "d">>, DigitChars, 1)

\* a data page of a GS316 switch that embeds the fresh value of its token
RotatedPage(token) == <<"<", "a", " ", "h", "r", "e", "f", "=", "/", "i", "s", "s", "/", "s", "p", "e", "c", "i", "f", "i", "c", "/", "p", "o", "e", ".", "h", "t", "m", "l", "?", "G", "a", "m", "b", "i", "t", "=">> \o token \o <<">", "p", "o", "r", "t", "1", "<", "/", "a", ">">>

\* an authenticated request that the switch serves with a page carrying a
\* fresh token: from then on the switch's session goes by the fresh value
CliDoRequestRotated(host, fresh, x) ==
    /\ IsModel316(SwitchModel(host))
    /\ x.err = Nil
    /\ Accepts(x.sent[1])
    /\ fresh # session[host]
    /\ session' = [session EXCEPT ![host] = fresh]
    /\ args' = x.args
    /\ lastCall' = CliResult("DoHttpRequestAndReadResponse", host, x)
    /\ sent' = x.sent
    /\ recv' = << RotatedPage(fresh) >>
    /\ UNCHANGED <<storeVars, cliFiles>>

NextRotate ==
    \/ \E h \in NetHosts, t \in SwitchTokens : CliLogin(h, TRUE, t)
    \/ \E h \in NetHosts : CliDoRequest("GET", h, DashboardHtml, "ok")
    \/ \E h \in NetHosts, t \in SwitchTokens :
           CliDoRequestRotated(h, t, DoHttpRequestAndReadResponse(args, "GET", h, DashboardHtml, "ok"))
    \/ NewProcess
    \/ \E h \in NetHosts : SessionExpire(h)

SpecRotate == InitCli /\ [][NextRotate]_vars

\* the token of the host's token file
StoredCliToken(host) ==
    IF tokenFilename(host) \in DOMAIN cliFiles
    THEN SplitN2(cliFiles[tokenFilename(host)].content, ":")[2]
    ELSE NoStr

\* the response bodies that carry no token
TokenlessBodies ==
    { b \in {DataPage, Success, LoginPage30x, LoginPage316} : ExtractGambitToken(b) = << >> }

\* C18: after an authenticated call for a GS316 host whose response carries
\* a token, the token stored for the host is the token of the response; an
\* authenticated call whose response carries no token leaves the token
\* files as they were.
C18_RotatedTokenStored ==
    /\ [](lastCall.op \in AuthOps /\ IsModel316(SwitchModel(lastCall.host)) /\ recv # << >>
             => \/ ExtractGambitToken(recv[1]) = << >>
                \/ StoredCliToken(lastCall.host) = ExtractGambitToken(recv[1]))
    /\ [][(lastCall'.op \in AuthOps /\ recv' # << >> /\ recv'[1] \in TokenlessBodies)
             => cliFiles' = cliFiles]_vars

(***************************************************************************)
(* Transport rule of the authenticated CLI requests                        *)
(***************************************************************************)
\* the model of the host's token file
StoredCliModel(host) ==
    IF tokenFilename(host) \in DOMAIN cliFiles
    THEN SplitN2(cliFiles[tokenFilename(host)].content, ":")[1]
    ELSE NoStr

\* C19: the request of an authenticated call for a host whose stored model
\* is a GS30x carries the Cookie header SID=<stored token of the host>, its
\* URL is the URL the caller gave, and an authenticated call leaves the
\* token files as they were.
C19_Family30xTransport ==
    /\ [](lastCall.op \in AuthOps /\ IsModel30x(StoredCliModel(lastCall.host)) /\ sent # << >>
             => /\ sent[1].cookie = SidCookie(StoredCliToken(lastCall.host))
                /\ sent[1].url \in CliUrls)
    /\ [][lastCall'.op \in AuthOps => cliFiles' = cliFiles]_vars

\* the Cookie header of the GS316 models as the API reference gives it
DocumentedGambitCookie(token) == <<"G", "a", "m", "b", "i", "t", "=">> \o token

\* the URL with the Gambit parameter added to its query
WithGambit(url, token) ==
    IF Contains(url, << "?" >>)
    THEN SplitN2(url, "?")[1] \o <<"?", "G", "a", "m", "b", "i", "t", "=">> \o token \o << "&" >> \o SplitN2(url, "?")[2]
    ELSE url \o <<"?", "G", "a", "m", "b", "i", "t", "=">> \o token

\* C20: the request of an authenticated call for a host whose stored model
\* is a GS316 carries the Cookie header Gambit=<stored token of the host>,
\* and its URL is the caller's URL with the parameter Gambit=<stored token>
\* added to the query and the rest of the query kept.
C20_Family316Transport ==
    (lastCall.op \in AuthOps /\ IsModel316(StoredCliModel(lastCall.host)) /\ sent # << >>)
        => /\ sent[1].cookie = DocumentedGambitCookie(StoredCliToken(lastCall.host))
           /\ sent[1].url \in { WithGambit(u, StoredCliToken(lastCall.host)) : u \in CliUrls }

(***************************************************************************)
(* Properties of the login steps                                           *)
(***************************************************************************)
\* the positions of the seed fetches among the requests of the last call
SeedFetches == { i \in DOMAIN sent : IsSeedFetch(sent[i]) }

\* C21: a Login whose fetched login page carries no seed returns
\* ErrSeedNotFound, has sent no login POST (no credential left the call),
\* and has fetched the login page exactly once.
C21_NoSeedNoPost ==
    (/\ lastCall.op = "Login"
     /\ \E i \in SeedFetches : i \in DOMAIN recv /\ ExtractSeedValue(recv[i].body) = NoStr)
        => /\ lastCall.err = ErrSeedNotFound
           /\ \A j \in DOMAIN sent : sent[j].method # "POST"
           /\ Cardinality(SeedFetches) = 1

\* C21 witness: a Login got a login page without seed and returned
\* ErrSeedNotFound after the seed fetch.
C21_Witness ==
    /\ lastCall.op = "Login"
    /\ lastCall.err = ErrSeedNotFound
    /\ recv # << >>
    /\ recv[Len(recv)].body = LoginPageNoSeed
    /\ IsSeedFetch(sent[Len(sent)])

(***************************************************************************)
(* The credential computation on its own                                   *)
(***************************************************************************)
MaxMergeLen == 3

\* passwords and seeds: all strings up to the bound, and the pair of the
\* documentation
MergeStrings == SeqsUpTo({"a", "1"}, MaxMergeLen)
DocPassword  == <<"a", "d", "m", "i", "n">>
DocSeed      == <<"a", "b", "c", "1", "2", "3">>
MergeInputs  == (MergeStrings \X MergeStrings) \cup { << DocPassword, DocSeed >> }

\* the state before a call: lastCall holds the inputs drawn, the password
\* as inTok and the seed as inModel
Drawn(password, seedValue) ==
    Call("none", NoStr, password, seedValue, Result(Nil, NoStr, NoStr))

InitMerge ==
    /\ mgrKind = "file"
    /\ files = << >>
    /\ mem = << >>
    /\ lastCall \in { Drawn(i[1], i[2]) : i \in MergeInputs }
    /\ cliFiles = << >>
    /\ args = NoArgs
    /\ session = [h \in Hosts |-> NoStr]
    /\ sent = << >>
    /\ recv = << >>
    /\ inflight = [p \in Procs |-> Idle]
    /\ storeCalls = {}
    /\ dirs = [cache |-> NoDir, config |-> NoDir]

\* the call of specialMerge on the inputs drawn: lastCall keeps the
\* password, the seed and the merge string returned (token)
CallSpecialMerge ==
    /\ lastCall.op = "none"
    /\ lastCall' = Call("specialMerge", NoStr, lastCall.inTok, lastCall.inModel,
                        Result(Nil, specialMerge(lastCall.inTok, lastCall.inModel), NoStr))
    /\ UNCHANGED <<storeVars, cliVars, netVars>>

NextMerge == CallSpecialMerge

SpecMerge == InitMerge /\ [][NextMerge]_vars

Min(a, b) == IF a < b THEN a ELSE b

\* the password and the seed read back from a merge string and their lengths
PasswordOf(m, lp, ls) ==
    [i \in 1..lp |-> IF i <= Min(lp, ls) THEN m[2 * i - 1] ELSE m[Min(lp, ls) + i]]

SeedOf(m, lp, ls) ==
    [i \in 1..ls |-> IF i <= Min(lp, ls) THEN m[2 * i] ELSE m[Min(lp, ls) + i]]

\* the merge string m traces back to the password p and the seed s
TracesBack(p, s, m, k) ==
    /\ Len(m) = Len(p) + Len(s)
    /\ \A i \in 0..(k - 1) : m[2 * i + 1] = p[i + 1] /\ m[2 * i + 2] = s[i + 1]
    /\ SubSeq(m, 2 * k + 1, Len(m))
           = IF Len(p) > Len(s) THEN SubSeq(p, k + 1, Len(p)) ELSE SubSeq(s, k + 1, Len(s))
    /\ PasswordOf(m, Len(p), Len(s)) = p
    /\ SeedOf(m, Len(p), Len(s)) = s

\* C22: the merge string of a password p and a seed s has length
\* len(p)+len(s); below min(len(p), len(s)) its characters at the positions
\* 2i and 2i+1 are p[i] and s[i]; the rest is the tail of the longer string
\* in order; p and s are read back from the merge string and their lengths.
C22_MergeTracesBack ==
    lastCall.op = "specialMerge"
        => TracesBack(lastCall.inTok, lastCall.inModel, lastCall.token,
                      Min(Len(lastCall.inTok), Len(lastCall.inModel)))

\* C22 witness: a merge of a seed with a longer password, both non-empty.
C22_Witness ==
    /\ lastCall.op = "specialMerge"
    /\ Len(lastCall.inModel) >= 1
    /\ Len(lastCall.inTok) > Len(lastCall.inModel) + 1
    /\ lastCall.inTok # [i \in 1..Len(lastCall.inTok) |-> lastCall.inModel[1]]
    /\ Len(lastCall.token) = Len(lastCall.inTok) + Len(lastCall.inModel)

\* C23 as stated: the merge of the password "admin" with the seed "abc123"
\* is the string "aabdcm1i2n3".
C23_DocMergeExample ==
    (lastCall.op = "specialMerge" /\ lastCall.inTok = DocPassword /\ lastCall.inModel = DocSeed)
        => lastCall.token = <<"a", "a", "b", "d", "c", "m", "1", "i", "2", "n", "3">>

\* C23: the merge of the password "admin" with the seed "abc123" is the
\* string "aadbmci1n23" (a+a, d+b, m+c, i+1, n+2, +3).
C23_MergeExample ==
    (lastCall.op = "specialMerge" /\ lastCall.inTok = DocPassword /\ lastCall.inModel = DocSeed)
        => lastCall.token = <<"a", "a", "d", "b", "m", "c", "i", "1", "n", "2", "3">>

\* C23 witness: specialMerge has been called with "admin" and "abc123".
C23_Witness ==
    /\ lastCall.op = "specialMerge"
    /\ lastCall.inTok = DocPassword
    /\ lastCall.inModel = DocSeed
    /\ Len(lastCall.token) = 11

(***************************************************************************)
(* crypto/md5 on 32-bit words kept as two 16-bit halves, high half first   *)
(***************************************************************************)
RECURSIVE BitAnd(_, _)
BitAnd(a, b) ==
    IF a = 0 \/ b = 0 THEN 0
    ELSE (a % 2) * (b % 2) + 2 * BitAnd(a \div 2, b \div 2)

WAnd(x, y) == << BitAnd(x[1], y[1]), BitAnd(x[2], y[2]) >>
WOr(x, y)  == << x[1] + y[1] - BitAnd(x[1], y[1]), x[2] + y[2] - BitAnd(x[2], y[2]) >>
WXor(x, y) == << Xor(x[1], y[1]), Xor(x[2], y[2]) >>
WNot(x)    == << 65535 - x[1], 65535 - x[2] >>

\* addition modulo 2^32
WAdd(x, y) ==
    << (x[1] + y[1] + ((x[2] + y[2]) \div 65536)) % 65536, (x[2] + y[2]) % 65536 >>

\* bits.RotateLeft32 by less than 16 bits, p = 2^s
RotHalves(hi, lo, p) ==
    << ((hi * p) % 65536) + (lo \div (65536 \div p)), ((lo * p) % 65536) + (hi \div (65536 \div p)) >>

RotateLeft32(x, s) ==
    IF s >= 16 THEN RotHalves(x[2], x[1], 2 ^ (s - 16)) ELSE RotHalves(x[1], x[2], 2 ^ s)

\* the sine table and the shifts of the 64 steps
Md5K ==
    <<
       <<55146, 42104>>, <<59591, 46934>>, <<9248, 28891>>, <<49597, 52974>>,
       <<62844, 4015>>, <<18311, 50730>>, <<43056, 17939>>, <<64838, 38145>>,
       <<27008, 39128>>, <<35652, 63407>>, <<65535, 23473>>, <<35164, 55230>>,
       <<27536, 4386>>, <<64920, 29075>>, <<42617, 17294>>, <<18868, 2081>>,
       <<63006, 9570>>, <<49216, 45888>>, <<9822, 23121>>, <<59830, 51114>>,
       <<54831, 4189>>, <<580, 5203>>, <<55457, 59009>>, <<59347, 64456>>,
       <<8673, 52710>>, <<49975, 2006>>, <<62677, 3463>>, <<17754, 5357>>,
       <<43491, 59653>>, <<64751, 41976>>, <<26479, 729>>, <<36138, 19594>>,
       <<65530, 14658>>, <<34673, 63105>>, <<28061, 24866>>, <<64997, 14348>>,
       <<42174, 59972>>, <<19422, 53161>>, <<63163, 19296>>, <<48831, 48240>>,
       <<10395, 32454>>, <<60065, 10234>>, <<54511, 12421>>, <<1160, 7429>>,
       <<55764, 53305>>, <<59099, 39397>>, <<8098, 31992>>, <<50348, 22117>>,
       <<62505, 8772>>, <<17194, 65431>>, <<43924, 9127>>, <<64659, 41017>>,
       <<25947, 22979>>, <<36620, 52370>>, <<65519, 62589>>, <<34180, 24017>>,
       <<28584, 32335>>, <<65068, 59104>>, <<41729, 17172>>, <<19976, 4513>>,
       <<63315, 32386>>, <<48442, 62005>>, <<10967, 53947>>, <<60294, 54161>>
    >>

Md5S ==
    <<
       7, 12, 17, 22, 7, 12, 17, 22, 7, 12, 17, 22, 7, 12, 17, 22,
       5, 9, 14, 20, 5, 9, 14, 20, 5, 9, 14, 20, 5, 9, 14, 20,
       4, 11, 16, 23, 4, 11, 16, 23, 4, 11, 16, 23, 4, 11, 16, 23,
       6, 10, 15, 21, 6, 10, 15, 21, 6, 10, 15, 21, 6, 10, 15, 21
    >>

\* the padded message: 0x80, zeros up to 56 modulo 64, the bit length in
\* eight bytes, least significant first
Md5Pad(bytes) ==
    bytes \o << 128 >>
          \o [i \in 1..((119 - Len(bytes)) % 64) |-> 0]
          \o << (Len(bytes) * 8) % 256, (Len(bytes) * 8) \div 256, 0, 0, 0, 0, 0, 0 >>

\* the word g (from 0) of the block that starts after off bytes, little endian
Md5Word(msg, off, g) ==
    << msg[off + 4 * g + 3] + 256 * msg[off + 4 * g + 4],
       msg[off + 4 * g + 1] + 256 * msg[off + 4 * g + 2] >>

\* the mixing function and the message word of step i
Md5F(i, b, c, d) ==
    IF i < 16 THEN WOr(WAnd(b, c), WAnd(WNot(b), d))
    ELSE IF i < 32 THEN WOr(WAnd(d, b), WAnd(WNot(d), c))
    ELSE IF i < 48 THEN WXor(b, WXor(c, d))
    ELSE WXor(c, WOr(b, WNot(d)))

Md5G(i) ==
    IF i < 16 THEN i
    ELSE IF i < 32 THEN (5 * i + 1) % 16
    ELSE IF i < 48 THEN (3 * i + 5) % 16
    ELSE (7 * i) % 16

\* the steps i..63 of one block on the state st = <<a, b, c, d>>
RECURSIVE Md5Steps(_, _, _, _)
Md5Steps(msg, off, i, st) ==
    IF i = 64 \/ Len(st) # 4 THEN st
    ELSE Md5Steps(msg, off, i + 1,
             << st[4],
                WAdd(st[2], RotateLeft32(WAdd(WAdd(Md5F(i, st[2], st[3], st[4]), st[1]),
                                              WAdd(Md5K[i + 1], Md5Word(msg, off, Md5G(i)))),
                                         Md5S[i + 1])),
                st[2],
                st[3] >>)

Md5AddState(s, t) ==
    << WAdd(s[1], t[1]), WAdd(s[2], t[2]), WAdd(s[3], t[3]), WAdd(s[4], t[4]) >>

RECURSIVE Md5Blocks(_, _, _)
Md5Blocks(msg, off, st) ==
    IF off >= Len(msg) \/ Len(st) # 4 THEN st
    ELSE Md5Blocks(msg, off + 64, Md5AddState(st, Md5Steps(msg, off, 0, st)))

\* the bytes of a word, least significant first
WordBytes(x) == << x[2] % 256, x[2] \div 256, x[1] % 256, x[1] \div 256 >>

\* md5.Sum: the 16 bytes of the digest
md5Sum(bytes) ==
    LET st == Md5Blocks(Md5Pad(bytes), 0,
                        << <<26437, 8961>>, <<61389, 43913>>, <<39098, 56574>>, <<4146, 21622>> >>)
    IN  WordBytes(st[1]) \o WordBytes(st[2]) \o WordBytes(st[3]) \o WordBytes(st[4])

HexDigits == << "0", "1", "2", "3", "4", "5", "6", "7", "8", "9", "a", "b", "c", "d", "e", "f" >>

\* a formatting that prints each byte as a number, without a leading zero
RECURSIVE SprintfxNoPad(_)
SprintfxNoPad(hash) ==
    IF hash = << >> THEN << >>
    ELSE (IF Head(hash) < 16 THEN << >> ELSE << HexDigits[(Head(hash) \div 16) + 1] >>)
         \o << HexDigits[(Head(hash) % 16) + 1] >> \o SprintfxNoPad(Tail(hash))

\* fmt.Sprintf("%x", hash) of a byte array: two lowercase digits per byte
RECURSIVE Sprintfx(_)
Sprintfx(hash) ==
    IF hash = << >> THEN << >>
    ELSE << HexDigits[(Head(hash) \div 16) + 1], HexDigits[(Head(hash) % 16) + 1] >>
         \o Sprintfx(Tail(hash))

\* the credential: the hexadecimal MD5 digest of the merge string
Encrypt(password, seedValue) == Sprintfx(md5Sum(specialMerge(password, seedValue)))


\* passwords and seeds as bytes: all strings of "a" and "1" up to the bound,
\* and the password and the seed of the manual login
EncryptStrings == SeqsUpTo({97, 49}, MaxMergeLen)
EncryptInputs  ==
    (EncryptStrings \X EncryptStrings)
        \cup { << <<78, 111, 110, 101, 49, 50, 51, 52, 64>>,
                  <<49, 54, 57, 54, 57, 53, 49, 49, 54, 55>> >> }

InitEncrypt ==
    /\ mgrKind = "file"
    /\ files = << >>
    /\ mem = << >>
    /\ lastCall \in { Drawn(i[1], i[2]) : i \in EncryptInputs }
    /\ cliFiles = << >>
    /\ args = NoArgs
    /\ session = [h \in Hosts |-> NoStr]
    /\ sent = << >>
    /\ recv = << >>
    /\ inflight = [p \in Procs |-> Idle]
    /\ storeCalls = {}
    /\ dirs = [cache |-> NoDir, config |-> NoDir]

\* the credential computed from the inputs drawn: lastCall keeps the
\* password, the seed and the credential (token)
CallEncrypt ==
    /\ lastCall.op = "none"
    /\ lastCall' = Call("Encrypt", NoStr, lastCall.inTok, lastCall.inModel,
                        Result(Nil, Encrypt(lastCall.inTok, lastCall.inModel), NoStr))
    /\ UNCHANGED <<storeVars, cliVars, netVars>>

NextEncrypt == CallEncrypt

SpecEncrypt == InitEncrypt /\ [][NextEncrypt]_vars

LowerHexChars == { HexDigits[i] : i \in 1..16 }

\* C24: the credential computed from a password and a seed is what
\* computing it again from the same inputs gives, and it is 32 characters
\* long, each a lowercase hexadecimal digit.
C24_EncryptIs32Hex ==
    lastCall.op = "Encrypt"
        => /\ Len(lastCall.token) = 32
           /\ \A i \in 1..Len(lastCall.token) : lastCall.token[i] \in LowerHexChars
           /\ lastCall.token = Encrypt(lastCall.inTok, lastCall.inModel)

\* C24 witness: a credential of a non-empty password and seed whose digest
\* has a byte below 16 (printed with a leading zero).
C24_Witness ==
    /\ lastCall.op = "Encrypt"
    /\ lastCall.inTok # << >>
    /\ lastCall.inModel # << >>
    /\ Len(lastCall.token) = 32
    /\ \E i \in 1..16 : lastCall.token[2 * i - 1] = "0"

(***************************************************************************)
(* Model detection on its own                                              *)
(***************************************************************************)
MaxFragments == 2

UpperCase == <<"A", "B", "C", "D", "E", "F", "G", "H", "I", "J", "K", "L", "M", "N", "O", "P", "Q", "R", "S", "T", "U", "V", "W", "X", "Y", "Z">>
LowerCase == <<"a", "b", "c", "d", "e", "f", "g", "h", "i", "j", "k", "l", "m", "n", "o", "p", "q", "r", "s", "t", "u", "v", "w", "x", "y", "z">>

\* strings.ToLower on ASCII
ToLower(s) ==
    [i \in 1..Len(s) |->
        IF \E k \in 1..26 : UpperCase[k] = s[i]
        THEN LowerCase[CHOOSE k \in 1..26 : UpperCase[k] = s[i]]
        ELSE s[i]]

TitleTag        == <<"<", "t", "i", "t", "l", "e", ">">>
RedirectToLogin == <<"R", "e", "d", "i", "r", "e", "c", "t", " ", "t", "o", " ", "L", "o", "g", "i", "n">>
RedirectWord    == <<"r", "e", "d", "i", "r", "e", "c", "t">>

\* the detection of the CLI: the title page of a GS316, or the redirect page
detectNetgearModelFromResponse(body) ==
    IF Contains(ToLower(body), TitleTag) /\ Contains(body, GS316EPP) THEN GS316EPP
    ELSE IF Contains(ToLower(body), TitleTag) /\ Contains(body, GS316EP) THEN GS316EP
    ELSE IF Contains(ToLower(body), TitleTag) /\ Contains(body, RedirectToLogin) THEN GS30xEPx
    ELSE NoStr

ErrCantDetect == "Can't auto-detect Netgear model from response. You may try using --model parameter "

\* the pieces root pages are made of
PageFragments ==
    { TitleTag, <<"<", "T", "I", "T", "L", "E", ">">>, GS316EPP, GS308EPP, GS305EPP, GS316EP, GS308EP, GS305EP,
      RedirectToLogin, RedirectWord, << "P" >> }

RECURSIVE Concat(_)
Concat(parts) == IF parts = << >> THEN << >> ELSE Head(parts) \o Concat(Tail(parts))

RootBodies == { Concat(parts) : parts \in SeqsUpTo(PageFragments, MaxFragments) }

InitDetect ==
    /\ mgrKind = "file"
    /\ files = << >>
    /\ mem = << >>
    /\ lastCall \in { Drawn(body, NoStr) : body \in RootBodies }
    /\ cliFiles = << >>
    /\ args = NoArgs
    /\ session = [h \in Hosts |-> NoStr]
    /\ sent = << >>
    /\ recv = << >>
    /\ inflight = [p \in Procs |-> Idle]
    /\ storeCalls = {}
    /\ dirs = [cache |-> NoDir, config |-> NoDir]

\* the outcome of a detection: the model, or the error of the caller
Detected(model, err) == Result(IF model = NoStr THEN err ELSE Nil, NoStr, model)

\* the library's detection on the body drawn (inTok)
CallDetectFromHTML ==
    /\ lastCall.op = "none"
    /\ lastCall' = Call("DetectFromHTML", NoStr, lastCall.inTok, NoStr,
                        Detected(DetectFromHTML(lastCall.inTok), ErrModelNotDetected))
    /\ UNCHANGED <<storeVars, cliVars, netVars>>

\* the CLI's detection on the body drawn
CallDetectNetgearModel ==
    /\ lastCall.op = "none"
    /\ lastCall' = Call("DetectNetgearModel", NoStr, lastCall.inTok, NoStr,
                        Detected(detectNetgearModelFromResponse(lastCall.inTok), ErrCantDetect))
    /\ UNCHANGED <<storeVars, cliVars, netVars>>

NextDetect == CallDetectFromHTML \/ CallDetectNetgearModel

SpecDetect == InitDetect /\ [][NextDetect]_vars

PlusModels == { GS316EPP, GS308EPP, GS305EPP }
PlusIn(body) == { m \in PlusModels : Contains(body, m) }
\* the name of the plus variant without its last letter
NonPlus(m) == SubSeq(m, 1, Len(m) - 1)
DetectOps == {"DetectFromHTML", "DetectNetgearModel"}

\* C25: for a body that contains the name of a plus variant, DetectFromHTML
\* returns a plus variant the body contains (the one, when it contains one),
\* and neither detection returns the shorter name that is a prefix of a
\* plus variant the body contains.
C25_PlusBeforePrefix ==
    /\ lastCall.op = "DetectFromHTML" /\ PlusIn(lastCall.inTok) # {}
           => lastCall.model \in PlusIn(lastCall.inTok)
    /\ lastCall.op \in DetectOps
           => \A m \in PlusIn(lastCall.inTok) : lastCall.model # NonPlus(m)

\* C25 witness: DetectFromHTML has returned GS316EPP for a body in which
\* GS316EP occurs too, as its prefix only.
C25_Witness ==
    /\ lastCall.op = "DetectFromHTML"
    /\ PlusIn(lastCall.inTok) = { GS316EPP }
    /\ Contains(lastCall.inTok, GS316EP)
    /\ lastCall.model = GS316EPP

NoModelName(body) ==
    \A m \in { GS316EPP, GS308EPP, GS305EPP, GS316EP, GS308EP, GS305EP } : ~Contains(body, m)

\* C26: a body without a model name that indicates the redirect to the
\* login ("Redirect to Login"; for DetectFromHTML also "redirect") is
\* detected as the generic GS30xEPx, by the CLI when the page has a title;
\* a body with neither a model name nor such an indication is detected as
\* no model, which the callers report as their detection error.
C26_RedirectIsGeneric30x ==
    /\ (/\ lastCall.op = "DetectFromHTML"
        /\ NoModelName(lastCall.inTok)
        /\ Contains(lastCall.inTok, RedirectToLogin) \/ Contains(lastCall.inTok, RedirectWord))
           => lastCall.model = GS30xEPx /\ lastCall.err = Nil
    /\ (/\ lastCall.op = "DetectNetgearModel"
        /\ NoModelName(lastCall.inTok)
        /\ Contains(ToLower(lastCall.inTok), TitleTag)
        /\ Contains(lastCall.inTok, RedirectToLogin))
           => lastCall.model = GS30xEPx /\ lastCall.err = Nil
    /\ (/\ lastCall.op \in DetectOps
        /\ NoModelName(lastCall.inTok)
        /\ ~Contains(lastCall.inTok, RedirectToLogin)
        /\ ~Contains(lastCall.inTok, RedirectWord))
           => /\ lastCall.model = NoStr
              /\ lastCall.err \in {ErrModelNotDetected, ErrCantDetect}

\* C26 witness: the redirect page of a GS30x switch, a page with a title and
\* no model name, has been detected as GS30xEPx.
C26_Witness ==
    /\ lastCall.op \in DetectOps
    /\ NoModelName(lastCall.inTok)
    /\ Contains(lastCall.inTok, TitleTag)
    /\ Contains(lastCall.inTok, RedirectToLogin)
    /\ lastCall.model = GS30xEPx

(***************************************************************************)
(* The response classifier on its own                                      *)
(***************************************************************************)
\* the pieces response bodies are made of: the login markers, parts of
\* them, data, and fillers of 9 and 10 characters
BodyFragments ==
    { LoginCgi, WmiLogin, RedirectHtml, <<"/", "l", "o", "g", "i", "n">>, <<"/", "w", "m", "i">>, Success, <<"<", "l", "i", ">">>,
      <<"a">>, <<"p", "o", "r", "t", " ", "1", " ", "o", "n">>, <<"p", "o", "r", "t", " ", "1", " ", "o", "f", "f">> }

ResponseBodies == { Concat(parts) : parts \in SeqsUpTo(BodyFragments, MaxFragments) }

InitClassify ==
    /\ mgrKind = "file"
    /\ files = << >>
    /\ mem = << >>
    /\ lastCall \in { Drawn(body, NoStr) : body \in ResponseBodies }
    /\ cliFiles = << >>
    /\ args = NoArgs
    /\ session = [h \in Hosts |-> NoStr]
    /\ sent = << >>
    /\ recv = << >>
    /\ inflight = [p \in Procs |-> Idle]
    /\ storeCalls = {}
    /\ dirs = [cache |-> NoDir, config |-> NoDir]

\* strconv.FormatBool
FormatBool(b) == IF b THEN <<"t", "r", "u", "e">> ELSE <<"f", "a", "l", "s", "e">>

\* the classifier on the body drawn (inTok); its answer is kept as token
CallCheckIsLoginRequired ==
    /\ lastCall.op = "none"
    /\ lastCall' = Call("CheckIsLoginRequired", NoStr, lastCall.inTok, NoStr,
                        Result(Nil, FormatBool(CheckIsLoginRequired(lastCall.inTok)), NoStr))
    /\ UNCHANGED <<storeVars, cliVars, netVars>>

NextClassify == CallCheckIsLoginRequired

SpecClassify == InitClassify /\ [][NextClassify]_vars

\* the minimal length of a content page, and the login markers
MinContentLen == 10
LoginMarkers  == { LoginCgi, WmiLogin, RedirectHtml }

\* C27: the classifier answers true for every body shorter than the minimal
\* content length and for every body that contains a login or redirect
\* marker of either family, and false for every other body.
C27_LoginRequiredExactly ==
    lastCall.op = "CheckIsLoginRequired"
        => (lastCall.token = FormatBool(TRUE)
                <=> \/ Len(lastCall.inTok) < MinContentLen
                    \/ \E m \in LoginMarkers : Contains(lastCall.inTok, m))

\* C27 witness: a body of exactly the minimal length without marker has
\* been classified as not requiring a login.
C27_Witness ==
    /\ lastCall.op = "CheckIsLoginRequired"
    /\ Len(lastCall.inTok) = MinContentLen
    /\ lastCall.token = FormatBool(FALSE)

(***************************************************************************)
(* Token extraction on its own                                             *)
(***************************************************************************)
\* the first position from i on that holds the character c
RECURSIVE SkipUntil(_, _, _)
SkipUntil(s, i, c) ==
    IF i > Len(s) \/ s[i] = c THEN i
    ELSE SkipUntil(s, i + 1, c)

\* the group of the leftmost match of prefix([^;]+)
RECURSIVE FindUpToSemicolon(_, _, _)
FindUpToSemicolon(s, prefix, i) ==
    IF i + Len(prefix) > Len(s) THEN << >>
    ELSE IF SubSeq(s, i, i + Len(prefix) - 1) = prefix /\ s[i + Len(prefix)] # ";"
    THEN SubSeq(s, i + Len(prefix), SkipUntil(s, i + Len(prefix), ";") - 1)
    ELSE FindUpToSemicolon(s, prefix, i + 1)

\* the opening quotes of a quoted value among the positions from..to: a
\* quote followed by at least one other character and a closing quote
OpeningQuotes(s, from, to) ==
    { k \in from..to : /\ s[k] = "\""
                       /\ k + 1 <= Len(s)
                       /\ s[k + 1] # "\""
                       /\ SkipUntil(s, k + 1, "\"") <= Len(s) }

Last(S) == CHOOSE k \in S : \A j \in S : j <= k

\* the quoted value after the separator at j, the run of quotes and spaces
\* after it ending before e
QuotedAfter(s, j, e) ==
    IF j > Len(s) \/ s[j] \notin {":", "="} \/ OpeningQuotes(s, j + 1, e - 1) = {} THEN << >>
    ELSE SubSeq(s, Last(OpeningQuotes(s, j + 1, e - 1)) + 1,
                SkipUntil(s, Last(OpeningQuotes(s, j + 1, e - 1)) + 1, "\"") - 1)

QuotedAt(s, word, i) ==
    IF SubSeq(s, i, i + Len(word) - 1) # word THEN << >>
    ELSE QuotedAfter(s, SkipWhile(s, i + Len(word), QuoteOrSpace),
                     SkipWhile(s, SkipWhile(s, i + Len(word), QuoteOrSpace) + 1, QuoteOrSpace))

\* the group of the leftmost match of word["\s]*[:=]["\s]*"([^"]+)"
RECURSIVE FindQuoted(_, _, _)
FindQuoted(s, word, i) ==
    IF i + Len(word) - 1 > Len(s) THEN << >>
    ELSE IF QuotedAt(s, word, i) # << >> THEN QuotedAt(s, word, i)
    ELSE FindQuoted(s, word, i + 1)

\* the first pattern that matches decides
FirstMatch(groups) ==
    IF \A i \in DOMAIN groups : groups[i] = << >> THEN << >>
    ELSE groups[CHOOSE i \in DOMAIN groups :
                    groups[i] # << >> /\ \A j \in 1..(i - 1) : groups[j] = << >>]

\* the library's extraction of the session token from a response content
ExtractSessionToken(content) ==
    FirstMatch(<< FindUpToSemicolon(content, SidPrefix, 1),
                  FindUpToSemicolon(content, <<"s", "e", "s", "s", "i", "o", "n", "i", "d", "=">>, 1),
                  FindQuoted(content, <<"t", "o", "k", "e", "n">>, 1),
                  FindStringSubmatch(content, <<"t", "o", "k", "e", "n">>, HexChars, 1) >>)

\* the pieces Set-Cookie headers are made of
HeaderFragments ==
    { <<"S", "I", "D", "=", "a", "b", "c">>, SidPrefix, <<";">>, <<";", "P", "a", "t", "h", "=", "/">>, <<"l", "a", "n", "g", "=", "e", "n">>, <<"s", "e", "s", "s", "i", "o", "n", "i", "d", "=", "x", "y", "z">>,
      <<"c", "s", "r", "f", "t", "o", "k", "e", "n", "=", "a", "b", "1", "2">>, <<"t", "o", "k", "e", "n", "=", "\"", "t", "1", "\"">>, <<"X">> }

SetCookieHeaders == { Concat(parts) : parts \in SeqsUpTo(HeaderFragments, MaxFragments) }

InitExtract ==
    /\ mgrKind = "file"
    /\ files = << >>
    /\ mem = << >>
    /\ lastCall \in { Drawn(header, NoStr) : header \in SetCookieHeaders }
    /\ cliFiles = << >>
    /\ args = NoArgs
    /\ session = [h \in Hosts |-> NoStr]
    /\ sent = << >>
    /\ recv = << >>
    /\ inflight = [p \in Procs |-> Idle]
    /\ storeCalls = {}
    /\ dirs = [cache |-> NoDir, config |-> NoDir]

\* the extraction of the manual login on the header drawn (inTok)
CallExtractSessionTokenManual ==
    /\ lastCall.op = "none"
    /\ lastCall' = Call("extractSessionToken", NoStr, lastCall.inTok, NoStr,
                        Result(Nil, extractSessionToken(lastCall.inTok), NoStr))
    /\ UNCHANGED <<storeVars, cliVars, netVars>>

\* the extraction of the library on the header drawn
CallExtractSessionToken ==
    /\ lastCall.op = "none"
    /\ lastCall' = Call("ExtractSessionToken", NoStr, lastCall.inTok, NoStr,
                        Result(Nil, ExtractSessionToken(lastCall.inTok), NoStr))
    /\ UNCHANGED <<storeVars, cliVars, netVars>>

NextExtract == CallExtractSessionTokenManual \/ CallExtractSessionToken

SpecExtract == InitExtract /\ [][NextExtract]_vars

ExtractOps == {"extractSessionToken", "ExtractSessionToken"}

\* the characters of the header after "SID=" up to the next ";"
SidValue(header) ==
    SubSeq(header, Len(SidPrefix) + 1, SkipUntil(header, Len(SidPrefix) + 1, ";") - 1)

\* C28: the token extracted from a Set-Cookie header that starts with SID=
\* is exactly the characters between SID= and the next ";" (all the rest
\* when there is none), and no token is extracted from a header in which
\* SID= does not occur.
C28_SidValueExactly ==
    lastCall.op \in ExtractOps
        => /\ HasPrefix(lastCall.inTok, SidPrefix) => lastCall.token = SidValue(lastCall.inTok)
           /\ ~Contains(lastCall.inTok, SidPrefix) => lastCall.token = NoStr


(***************************************************************************)
(* Gambit token extraction on its own                                      *)
(***************************************************************************)
\* the hidden input field of a GS316 login reply as documented
HiddenInput(token) ==
    <<"<", "i", "n", "p", "u", "t", " ", "t", "y", "p", "e", "=", "\"", "h", "i", "d", "d", "e", "n", "\"", " ", "n", "a", "m", "e", "=", "\"", "G", "a", "m", "b", "i", "t", "\"", " ", "v", "a", "l", "u", "e", "=", "\"">> \o token \o <<"\"", ">">>

GambitTokens == { <<"a", "1", "f">>, <<"x", "y", "z", "7", "8", "9", "t", "o", "k", "e", "n">> }

\* the pieces the bodies of GS316 replies are made of
ReplyFragments ==
    { HiddenInput(token) : token \in GambitTokens }
        \cup { <<"<", "h", "t", "m", "l", ">">>, <<"<", "/", "h", "t", "m", "l", ">">>, LoginPage316, DataPage,
               <<"<", "i", "n", "p", "u", "t", " ", "i", "d", "=", "\"", "r", "a", "n", "d", "\"", " ", "v", "a", "l", "u", "e", "=", "\"", "1", "2", "\"", ">">>, <<"?", "G", "a", "m", "b", "i", "t", "=", "a", "1", "f">>,
               <<"g", "a", "m", "b", "i", "t", ":", " ", "\"", "b", "2", "\"">>, <<"r", "a", "n", "d", "=", "1", "2">> }

ReplyBodies == { Concat(parts) : parts \in SeqsUpTo(ReplyFragments, MaxFragments) }

InitGambit ==
    /\ mgrKind = "file"
    /\ files = << >>
    /\ mem = << >>
    /\ lastCall \in { Drawn(body, NoStr) : body \in ReplyBodies }
    /\ cliFiles = << >>
    /\ args = NoArgs
    /\ session = [h \in Hosts |-> NoStr]
    /\ sent = << >>
    /\ recv = << >>
    /\ inflight = [p \in Procs |-> Idle]
    /\ storeCalls = {}
    /\ dirs = [cache |-> NoDir, config |-> NoDir]

\* the extraction of the hidden field on the body drawn (inTok)
CallExtractHiddenGambit ==
    /\ lastCall.op = "none"
    /\ lastCall' = Call("extractGambitToken", NoStr, lastCall.inTok, NoStr,
                        Result(Nil, extractGambitToken(lastCall.inTok), NoStr))
    /\ UNCHANGED <<storeVars, cliVars, netVars>>

\* the extraction of the parser on the body drawn
CallExtractGambitToken ==
    /\ lastCall.op = "none"
    /\ lastCall' = Call("ExtractGambitToken", NoStr, lastCall.inTok, NoStr,
                        Result(Nil, ExtractGambitToken(lastCall.inTok), NoStr))
    /\ UNCHANGED <<storeVars, cliVars, netVars>>

NextGambit == CallExtractHiddenGambit \/ CallExtractGambitToken

SpecGambit == InitGambit /\ [][NextGambit]_vars

GambitOps == {"extractGambitToken", "ExtractGambitToken"}

\* the body holds the hidden field with this value and with no other
HiddenOnly(body, token) ==
    /\ Contains(body, HiddenInput(token))
    /\ \A other \in GambitTokens \ {token} : ~Contains(body, HiddenInput(other))

\* C29: from a GS316 reply whose body holds the hidden input field named
\* Gambit with value T the token extracted is T, and from a body in which
\* Gambit does not occur no token is extracted.
C29_HiddenGambitValue ==
    lastCall.op \in GambitOps
        => /\ \A token \in GambitTokens :
                 HiddenOnly(lastCall.inTok, token) => lastCall.token = token
           /\ ~Contains(lastCall.inTok, <<"G", "a", "m", "b", "i", "t">>) => lastCall.token = NoStr


(***************************************************************************)
(* The calling layer: authentication with retries                          *)
(***************************************************************************)
MaxAttempts == 3

\* a seed the switch issues at another time
OtherSeed == <<"3", "4">>

ErrTimeout == "i/o timeout"

\* what happens around the attempts of the calling layer: the login goes
\* through, the login page has no seed, or the transport fails
RetryEnvs ==
    { LoginEnv("none", "", seeded, << "a" >>, FALSE) : seeded \in BOOLEAN }
    \cup { LoginEnv(at, how, TRUE, << "a" >>, FALSE) :
               at \in {"seed", "post"}, how \in {ErrTimeout, "connection refused"} }
    \cup { [at |-> at, how |-> ErrTimeout, seeded |-> TRUE, token |-> << "a" >>,
            attrs |-> FALSE, seed |-> OtherSeed] : at \in {"none", "post"} }

\* a wait that does not grow with the attempts
FixedBackoff(attempt) == IF attempt > 1 THEN 2 ELSE 0

\* the seconds the loop sleeps before an attempt: none before the first,
\* then as many as the number of the attempt
Backoff(attempt) == IF attempt > 1 THEN attempt ELSE 0

\* the state of the loop after an attempt that ended as x: the errors of
\* the attempts made so far (errs), the last of them in err, and the
\* seconds slept before each attempt (waits)
AuthAttempt(host, password, errs, x) ==
    [op |-> "AuthenticateClient", host |-> host, inTok |-> password, inModel |-> NoStr,
     err |-> x.err, token |-> x.token, model |-> x.model,
     n |-> Len(errs) + 1, errs |-> Append(errs, x.err),
     waits |-> [k \in 1..(Len(errs) + 1) |-> Backoff(k)]]

\* one turn of the loop: Login with the configured password
attemptLogin(host, password, errs, before, replies, x) ==
    /\ lastCall' = AuthAttempt(host, password, errs, x)
    /\ sent' = before \o x.sent
    /\ recv' = replies \o x.recv
    /\ session' = IF x.issued # NoStr
                  THEN [session EXCEPT ![host] = x.issued]
                  ELSE session
    /\ IF x.err # Nil THEN UNCHANGED <<files, mem>>
       ELSE IF mgrKind = "file"
       THEN files' = FileStoreToken(host, x.token, x.model) /\ UNCHANGED mem
       ELSE mem' = MemStoreToken(host, x.token, x.model) /\ UNCHANGED files
    /\ dirs' = IF x.err = Nil /\ mgrKind = "file" THEN MkdirAll(dirs, "cache", "0700")
               ELSE dirs
    /\ UNCHANGED <<mgrKind, inflight, storeCalls, cliVars>>

\* AuthenticateClient enters its loop: the first attempt
AuthenticateClient(host, password, e) ==
    /\ lastCall = NoCall
    /\ attemptLogin(host, password, << >>, << >>, << >>, Login(host, password, e))

\* the loop goes on, after its delay, as long as the last attempt did not
\* leave the client authenticated and attempts remain
AuthenticateRetry(e) ==
    /\ lastCall.op = "AuthenticateClient"
    /\ lastCall.n < MaxAttempts
    /\ ~(lastCall.err = Nil /\ IsAuthenticated(lastCall.host))
    /\ attemptLogin(lastCall.host, lastCall.inTok, lastCall.errs, sent, recv,
                    Login(lastCall.host, lastCall.inTok, e))

NextRetry ==
    \/ \E h \in Hosts, p \in Passwords, e \in RetryEnvs : AuthenticateClient(h, p, e)
    \/ \E e \in RetryEnvs : AuthenticateRetry(e)

SpecRetry == InitLib /\ [][NextRetry]_vars

\* C30: the calling layer calls Login again only after an attempt that
\* failed by a network timeout; an attempt that ended with
\* ErrInvalidCredentials is the last, so its credential is posted once.
C30_RetryOnlyAfterTimeout ==
    lastCall.op = "AuthenticateClient"
        => /\ \A i \in 1..(Len(lastCall.errs) - 1) : lastCall.errs[i] = ErrTimeout
           /\ \A i \in 1..Len(lastCall.errs) :
                  lastCall.errs[i] = ErrInvalidCredentials
                      => i = Len(lastCall.errs) /\ Cardinality(LoginPosts(sent)) = 1


\* C31: the loop of the calling layer makes at most three Login attempts,
\* sleeps before attempt k (k >= 2) a time that grows linearly with k (k
\* seconds), and makes no attempt after one that succeeded.
C31_BoundedLinearBackoff ==
    lastCall.op = "AuthenticateClient"
        => /\ lastCall.n <= MaxAttempts
           /\ Len(lastCall.errs) = lastCall.n
           /\ Cardinality({ i \in DOMAIN sent : IsSeedFetch(sent[i]) }) <= MaxAttempts
           /\ \A k \in 2..lastCall.n : lastCall.waits[k] = k
           /\ \A k \in 3..lastCall.n :
                  lastCall.waits[k] - lastCall.waits[k - 1] = lastCall.waits[2] - 1
           /\ \A i \in 1..(lastCall.n - 1) : lastCall.errs[i] # Nil

\* the third attempt succeeded after two timeouts
C31_Witness ==
    /\ lastCall.op = "AuthenticateClient"
    /\ lastCall.errs = << ErrTimeout, ErrTimeout, Nil >>
    /\ lastCall.waits = << 0, 2, 3 >>
    /\ IsAuthenticated(lastCall.host)


(***************************************************************************)
(* Permissions of the token directories and files                          *)
(***************************************************************************)
\* the check of the configuration that makes sure the cache directory of
\* the library can be created
CheckCacheDir ==
    /\ mgrKind = "file"
    /\ dirs' = MkdirAll(dirs, "cache", "0755")
    /\ lastCall' = Call("CheckCacheDir", NoStr, NoStr, NoStr, Result(Nil, NoStr, NoStr))
    /\ UNCHANGED <<mgrKind, files, mem, inflight, storeCalls, cliVars, netVars>>

\* tokens stored through the library and through the login command
NextPerm ==
    \/ \E h \in Hosts, m \in StoredModels : StoreToken(h, << "a" >>, m)
    \/ \E h \in Hosts : DeleteToken(h)
    \/ \E h \in NetHosts, ok \in BOOLEAN : CliLogin(h, ok, << "a" >>)
    \/ CheckCacheDir

SpecPerm == InitStore /\ [][NextPerm]_vars

\* C32: every directory of tokens that exists was created with the
\* permission bits 0700 and every token file, of the library and of the
\* command line, has the permission bits 0600.
C32_OwnerOnlyPermissions ==
    /\ \A d \in DOMAIN dirs : dirs[d] \in {NoDir, "0700"}
    /\ \A n \in DOMAIN files : files[n].mode = "0600"
    /\ \A n \in DOMAIN cliFiles : cliFiles[n].mode = "0600"


(***************************************************************************)
(* What reaches the token store                                            *)
(***************************************************************************)
\* the passwords tried and the credentials computed from them
Secrets == Passwords \cup { EncryptPasswordWithSeed(p, Seed) : p \in Passwords }

\* the contents a record of a family and a session token has
RecordContents == { m \o << ":" >> \o t : m \in {GS30xEPx, GS316EPP}, t \in IssuedTokens }

\* C33: neither a password nor a credential is ever in the token store: a
\* stored record holds the family and the session token the switch issued,
\* and nothing else.
C33_NoSecretStored ==
    /\ \A n \in DOMAIN files :
           /\ files[n].content \in RecordContents
           /\ \A s \in Secrets : ~Contains(files[n].content, s)
    /\ \A a \in DOMAIN mem :
           /\ DOMAIN mem[a] = {"token", "model"}
           /\ mem[a].token \in IssuedTokens
           /\ mem[a].model \in {GS30xEPx, GS316EPP}
           /\ \A s \in Secrets : ~Contains(mem[a].token, s) /\ ~Contains(mem[a].model, s)

\* a login with the right password was accepted and its record is stored
C33_Witness ==
    /\ lastCall.op = "Login"
    /\ lastCall.err = Nil
    /\ \E i \in DOMAIN sent :
           IsLoginPost(sent[i]) /\ sent[i].body = EncryptPasswordWithSeed(SwitchPassword, Seed)
    /\ IF mgrKind = "file" THEN files # << >> ELSE mem # << >>


(***************************************************************************)
(* The CLI's power cycle command and the family it works with              *)
(***************************************************************************)
PoePortConfHtml  == <<"/", "i", "s", "s", "/", "s", "p", "e", "c", "i", "f", "i", "c", "/", "p", "o", "e", "P", "o", "r", "t", "C", "o", "n", "f", ".", "h", "t", "m", "l">>
PoEPortConfigCgi == <<"/", "P", "o", "E", "P", "o", "r", "t", "C", "o", "n", "f", "i", "g", ".", "c", "g", "i">>
PoeStatusCgi     == <<"/", "g", "e", "t", "P", "o", "e", "P", "o", "r", "t", "S", "t", "a", "t", "u", "s", ".", "c", "g", "i">>

\* the root page of a switch as a browser gets it
TitledRootPage(host) == TitleTag \o RootPage(host)

\* DetectNetgearModel: one unauthenticated GET of the root page
DetectNetgearModel(host, net) ==
    IF net # "ok" THEN [model |-> NoStr, err |-> net]
    ELSE IF detectNetgearModelFromResponse(TitledRootPage(host)) = NoStr
    THEN [model |-> NoStr, err |-> ErrCantDetect]
    ELSE [model |-> detectNetgearModelFromResponse(TitledRootPage(host)), err |-> Nil]

\* the exchange x of a command, after the requests and responses before it
After(reqs, bodies, x) ==
    Exchange(x.body, x.err, x.args, reqs \o x.sent, bodies \o x.recv)

\* the status request that ends the command
poeStatusAfter(host, url, net, x) ==
    After(x.sent, x.recv, RequestPage(x.args, host, url, net))

\* the reply to the reset: anything but "SUCCESS" is the error
poeResetReply(host, statusUrl, net, x) ==
    IF x.err # Nil THEN x
    ELSE IF x.body # Success THEN Exchange(NoStr, x.body, x.args, x.sent, x.recv)
    ELSE poeStatusAfter(host, statusUrl, net, x)

\* the reset request of the GS30x models, after the configuration page c
poeResetGs30x(host, net, c) ==
    IF c.err # Nil THEN c
    ELSE IF CheckIsLoginRequired(c.body)
    THEN Exchange(NoStr, ErrReLogin, c.args, c.sent, c.recv)
    ELSE poeResetReply(host, PoeStatusCgi, net,
             After(c.sent, c.recv,
                   DoHttpRequestAndReadResponse(c.args, "POST", host, PoEPortConfigCgi, net)))

cyclePowerGs30xEPx(a, host, net) ==
    poeResetGs30x(host, net, RequestPage(a, host, PoEPortConfigCgi, net))

\* the reset request of the GS316 models, after the token read r
poeResetGs316(host, net, r) ==
    IF r.err # Nil THEN Exchange(NoStr, r.err, r.args, << >>, << >>)
    ELSE poeResetReply(host, PoeStatusHtml, net,
             DoHttpRequestAndReadResponse(r.args, "POST", host, PoePortConfHtml, net))

cyclePowerGs316EPx(a, host, net) ==
    poeResetGs316(host, net, ReadTokenAndModel2GlobalOptions(a, host))

\* the command with the family in the options object
poeCycleWithModel(a, host, net) ==
    IF IsModel30x(a.Model) THEN cyclePowerGs30xEPx(a, host, net)
    ELSE cyclePowerGs316EPx(a, host, net)

\* the command after the detection d
poeCycleDetected(a, host, net, d) ==
    IF d.err # Nil
    THEN Exchange(NoStr, d.err, a, << Request("GET", host, Root, NoStr) >>, << >>)
    ELSE After(<< Request("GET", host, Root, NoStr) >>, << TitledRootPage(host) >>,
               poeCycleWithModel([a EXCEPT !.Model = d.model], host, net))

\* PoeCyclePowerCommand.Run: the family is that of the options object, and
\* is detected when the options object has none
PoeCyclePowerRun(a, host, dnet, net) ==
    IF Len(a.Model) = 0
    THEN poeCycleDetected(a, host, net, DetectNetgearModel(host, dnet))
    ELSE poeCycleWithModel(a, host, net)

\* the command ends as x
CliPoeCycle(host, x) ==
    /\ args' = x.args
    /\ lastCall' = CliResult("PoeCyclePower", host, x)
    /\ sent' = x.sent
    /\ recv' = x.recv
    /\ UNCHANGED <<storeVars, cliFiles, session>>

\* logins and power cycles, in one process or in processes of their own
NextFamily ==
    \/ \E h \in NetHosts, ok \in BOOLEAN, t \in SwitchTokens : CliLogin(h, ok, t)
    \/ \E h \in NetHosts, d \in NetOutcomes, n \in NetOutcomes :
           CliPoeCycle(h, PoeCyclePowerRun(args, h, d, n))
    \/ \E h \in NetHosts, n \in NetOutcomes : CliPortSettings(h, n)
    \/ NewProcess
    \/ \E h \in NetHosts : SessionExpire(h)

SpecFamily == InitCli /\ [][NextFamily]_vars

FamilyOps == AuthOps \cup {"PoeCyclePower"}

\* the requests of a call that carry a token
Authenticated(reqs) == { i \in DOMAIN reqs : reqs[i].cookie # NoStr }

\* the family a request is made for: that of its cookie
RequestFamily(req) ==
    IF HasPrefix(req.cookie, SidPrefix) THEN GS30xEPx ELSE GS316EPP

\* C34: once the family of a host is known (its token file holds it), no
\* later call for the host detects it again, the stored family stays what it
\* is, and the authenticated requests of the call are made for that family.
C34_FamilyDetectedOnce ==
    [][\A h \in NetHosts :
          StoredCliModel(h) # NoStr
              => /\ StoredCliModel(h)' = StoredCliModel(h)
                 /\ (lastCall'.op \in FamilyOps /\ lastCall'.host = h)
                        => /\ \A i \in DOMAIN sent' : sent'[i].url # Root
                           /\ \A i \in Authenticated(sent') :
                                  RequestFamily(sent'[i]) = StoredCliModel(h)]_vars


(***************************************************************************)
(* The order of the steps of a login                                       *)
(***************************************************************************)
\* the token the reply to a login POST carries, by the family's extraction
ReplyToken(model, reply) ==
    IF IsModel316(model) THEN extractGambitToken(reply.body)
    ELSE extractSessionToken(reply.setCookie)

\* the steps of one Login call with this password in order: reqs are its
\* requests, resps its responses
LoginInOrder(password, reqs, resps) ==
    /\ Cardinality(LoginPosts(reqs)) <= 1
    /\ Cardinality({ i \in DOMAIN reqs : IsSeedFetch(reqs[i]) }) <= 1
    /\ \A j \in LoginPosts(reqs) :
           /\ j = Len(reqs)
           /\ j > 1
           /\ IsSeedFetch(reqs[j - 1])
           /\ j - 1 \in DOMAIN resps
           /\ ExtractSeedValue(resps[j - 1].body) # NoStr
           /\ reqs[j].body = EncryptPasswordWithSeed(password, ExtractSeedValue(resps[j - 1].body))

\* the reply to the login POST of the call carries a token
ClassifiedAuthenticated(model, reqs, resps) ==
    /\ LoginPosts(reqs) = {Len(reqs)}
    /\ Len(resps) = Len(reqs)
    /\ ReplyToken(model, resps[Len(resps)]) # NoStr

\* C35: in every Login call the login POST comes last, right after the seed
\* fetch of that same call, and its credential is computed from the seed of
\* the page that fetch returned; a token is stored only by a call whose
\* reply to the POST was classified as authenticated.
C35_LoginStepsInOrder ==
    [][lastCall'.op = "AuthenticateClient"
          => /\ LoginInOrder(lastCall'.inTok,
                             SubSeq(sent', Len(sent) + 1, Len(sent')),
                             SubSeq(recv', Len(recv) + 1, Len(recv')))
             /\ (files' # files \/ mem' # mem)
                    => /\ lastCall'.err = Nil
                       /\ ClassifiedAuthenticated(lastCall'.model,
                              SubSeq(sent', Len(sent) + 1, Len(sent')),
                              SubSeq(recv', Len(recv) + 1, Len(recv')))]_vars

\* the second attempt succeeded with the seed of its own login page, after
\* an attempt whose page had another seed
C35_Witness ==
    /\ lastCall.op = "AuthenticateClient"
    /\ lastCall.errs = << ErrTimeout, Nil >>
    /\ Cardinality(LoginPosts(sent)) = 2
    /\ \E i, j \in LoginPosts(sent) :
           /\ i < j
           /\ sent[i].body = EncryptPasswordWithSeed(SwitchPassword, OtherSeed)
           /\ sent[j].body = EncryptPasswordWithSeed(SwitchPassword, Seed)
    /\ IsAuthenticated(lastCall.host)

(***************************************************************************)
(* The endpoint registry on its own                                        *)
(***************************************************************************)
\* the models a registry is built for: the known ones, the empty model and
\* one that names no family
RegistryModels ==
    { GS30xEPx, GS305EP, GS305EPP, GS308EP, GS308EPP, GS316EP, GS316EPP,
      NoStr, <<"G", "S", "9", "9", "9">> }

\* the operations asked for: the declared ones, and two that are not
RegistryOperations == EndpointTypes \cup { "vlan", "" }

InitRegistry ==
    /\ mgrKind = "file"
    /\ files = << >>
    /\ mem = << >>
    /\ lastCall \in { Drawn(endpointType, model) :
                          endpointType \in RegistryOperations, model \in RegistryModels }
    /\ cliFiles = << >>
    /\ args = NoArgs
    /\ session = [h \in Hosts |-> NoStr]
    /\ sent = << >>
    /\ recv = << >>
    /\ inflight = [p \in Procs |-> Idle]
    /\ storeCalls = {}
    /\ dirs = [cache |-> NoDir, config |-> NoDir]

\* GetEndpoint of the registry of the model drawn (inModel) for the
\* operation drawn (inTok)
CallGetEndpoint ==
    /\ lastCall.op = "none"
    /\ lastCall' = [op |-> "GetEndpoint", host |-> NoStr,
                    inTok |-> lastCall.inTok, inModel |-> lastCall.inModel,
                    err |-> Nil, token |-> NoStr, model |-> NoStr,
                    info |-> GetEndpoint(lastCall.inModel, lastCall.inTok)]
    /\ UNCHANGED <<storeVars, cliVars, netVars>>

\* ValidateEndpoint of that registry for that operation
CallValidateEndpoint ==
    /\ lastCall.op = "none"
    /\ lastCall' = [op |-> "ValidateEndpoint", host |-> NoStr,
                    inTok |-> lastCall.inTok, inModel |-> lastCall.inModel,
                    err |-> ValidateEndpoint(lastCall.inModel, lastCall.inTok),
                    token |-> NoStr, model |-> NoStr,
                    info |-> GetEndpoint(lastCall.inModel, lastCall.inTok)]
    /\ UNCHANGED <<storeVars, cliVars, netVars>>

NextRegistry == CallGetEndpoint \/ CallValidateEndpoint

SpecRegistry == InitRegistry /\ [][NextRegistry]_vars

RegistryOps == {"GetEndpoint", "ValidateEndpoint"}

\* the model names a family and the operation is a declared one
Recognized(model, endpointType) ==
    /\ IsModel30x(model) \/ IsModel316(model)
    /\ endpointType \in EndpointTypes

\* C36: for every model and every operation the lookup returns a
\* descriptor and makes no request; a model of no family and an operation
\* that is not declared resolve to a descriptor that is not supported;
\* ValidateEndpoint returns an error exactly when the descriptor resolved
\* is not supported.
C36_TotalLookup ==
    lastCall.op \in RegistryOps
        => /\ DOMAIN lastCall.info = {"URL", "Supported", "Method"}
           /\ lastCall.info.Supported \in BOOLEAN
           /\ sent = << >> /\ recv = << >>
           /\ ~Recognized(lastCall.inModel, lastCall.inTok) => ~lastCall.info.Supported
           /\ lastCall.op = "ValidateEndpoint"
                  => (lastCall.err # Nil <=> ~lastCall.info.Supported)

\* the port update of a GS30x model has a URL but is not supported, and is
\* rejected
C36_Witness ==
    /\ lastCall.op = "ValidateEndpoint"
    /\ lastCall.inModel = GS308EP
    /\ lastCall.inTok = EndpointPortUpdate
    /\ lastCall.info.URL # NoStr
    /\ ~lastCall.info.Supported
    /\ lastCall.err = NotSupportedError(GS308EP, EndpointPortUpdate)

(***************************************************************************)
(* The order of the checks of the port operations                          *)
(***************************************************************************)
PortOps == {"UpdatePort", "GetSettings"}

\* the operation a port call asks the registry for
PortEndpoint(op) ==
    IF op = "UpdatePort" THEN EndpointPortUpdate ELSE EndpointPortSettings

\* C37: an UpdatePort or GetSettings call for a host that is not
\* authenticated returns the not-authenticated error, also when the
\* registry does not support the operation, and a call sends a request only
\* for an authenticated host whose family supports the operation.
C37_ChecksInOrder ==
    lastCall.op \in PortOps
        => /\ ~IsAuthenticated(lastCall.host)
                  => lastCall.err = ErrNotAuthenticated /\ sent = << >>
           /\ sent # << >>
                  => /\ IsAuthenticated(lastCall.host)
                     /\ IsEndpointSupported(TMGet(lastCall.host).model,
                                            PortEndpoint(lastCall.op))

\* a port update with updates for a host without a record, whose operation
\* the registry does not support either, got the not-authenticated error
C37_Witness ==
    /\ lastCall.op = "UpdatePort"
    /\ lastCall.n > 0
    /\ ~IsAuthenticated(lastCall.host)
    /\ ValidateEndpoint(TMGet(lastCall.host).model, EndpointPortUpdate) # Nil
    /\ lastCall.err = ErrNotAuthenticated
    /\ sent = << >>

(***************************************************************************)
(* The success reply of a state-changing operation                         *)
(***************************************************************************)
\* C38: a port update whose last response body is the plain-text reply
\* SUCCESS of the switch returns no error, and the response classifier does
\* not take that body for a login page.
C38_SuccessReplyReported ==
    (/\ lastCall.op = "UpdatePort"
     /\ recv # << >>
     /\ recv[Len(recv)].body = Success)
        => /\ lastCall.err = Nil
           /\ ~CheckIsLoginRequired(recv[Len(recv)].body)

(***************************************************************************)
(* The token reader of the CLI                                             *)
(***************************************************************************)
\* C39: a read of the token reader that returns no error returns the model
\* and the token of the token file of the host it was asked about, also
\* when the options object was filled by a read for another host.
C39_ReaderReturnsHostRecord ==
    (lastCall.op = "ReadTokenAndModel2GlobalOptions" /\ lastCall.err = Nil)
        => /\ tokenFilename(lastCall.host) \in DOMAIN cliFiles
           /\ lastCall.model = StoredCliModel(lastCall.host)
           /\ lastCall.token = StoredCliToken(lastCall.host)

(***************************************************************************)
(* Environment variables in the test configuration                         *)
(***************************************************************************)
RefOpen  == <<"$", "{">>
RefClose == <<"}">>

\* the pieces configuration strings are made of
ConfigPieces ==
    { <<"$", "{", "X", "}">>, <<"$", "{", "Y", "}">>, RefOpen, RefClose, <<"a">>, <<"$">> }

ConfigStrings == { Concat(ps) : ps \in SeqsUpTo(ConfigPieces, MaxFragments) }

\* environments: a plain value; a value that refers to a variable with a
\* plain value; a value that refers to a variable that is not set; two
\* values that refer to each other
Environments ==
    { (<<"X">> :> <<"v">>),
      (<<"X">> :> <<"$", "{", "Y", "}">>) @@ (<<"Y">> :> <<"w">>),
      (<<"X">> :> <<"$", "{", "Z", "}">>),
      (<<"X">> :> <<"$", "{", "Y", "}">>) @@ (<<"Y">> :> <<"$", "{", "X", "}">>) }

\* os.Getenv: the empty string for a variable that is not set
Getenv(env, varName) == IF varName \in DOMAIN env THEN env[varName] ELSE NoStr

\* start and end of the loop: the first "${" of s, and the first "}" from
\* there on; 0 when there is none
RefStart(s) == Index(s, RefOpen)
RefEnd(s)   == IF RefStart(s) = 0 THEN 0 ELSE IndexFrom(s, RefClose, RefStart(s))

\* the loop goes on: neither of the two breaks is taken
HasReference(s) == RefStart(s) # 0 /\ RefEnd(s) # 0

\* s = s[:start] + varValue + s[end+1:]
ReplaceReference(s, env) ==
    SubSeq(s, 1, RefStart(s) - 1)
        \o Getenv(env, SubSeq(s, RefStart(s) + 2, RefEnd(s) - 1))
        \o SubSeq(s, RefEnd(s) + 1, Len(s))

\* a call of expandEnvVariables: the string given (inTok), the string s of
\* the loop (token), the environment of the process
Expanding(op, input, s, env) ==
    [op |-> op, host |-> NoStr, inTok |-> input, inModel |-> NoStr,
     err |-> Nil, token |-> s, model |-> NoStr, env |-> env]

InitExpand ==
    /\ mgrKind = "file"
    /\ files = << >>
    /\ mem = << >>
    /\ lastCall \in { Expanding("none", s, s, env) :
                          s \in ConfigStrings, env \in Environments }
    /\ cliFiles = << >>
    /\ args = NoArgs
    /\ session = [h \in Hosts |-> NoStr]
    /\ sent = << >>
    /\ recv = << >>
    /\ inflight = [p \in Procs |-> Idle]
    /\ storeCalls = {}
    /\ dirs = [cache |-> NoDir, config |-> NoDir]

\* one pass of the loop that replaces the first reference
ExpandReplace ==
    /\ lastCall.op \in {"none", "expanding"}
    /\ HasReference(lastCall.token)
    /\ lastCall' = Expanding("expanding", lastCall.inTok,
                             ReplaceReference(lastCall.token, lastCall.env), lastCall.env)
    /\ UNCHANGED <<storeVars, cliVars, netVars>>

\* the pass that takes one of the breaks: the function returns s
ExpandReturn ==
    /\ lastCall.op \in {"none", "expanding"}
    /\ ~HasReference(lastCall.token)
    /\ lastCall' = Expanding("expandEnvVariables", lastCall.inTok,
                             lastCall.token, lastCall.env)
    /\ UNCHANGED <<storeVars, cliVars, netVars>>

NextExpand == ExpandReplace \/ ExpandReturn

SpecExpand == InitExpand /\ [][NextExpand]_vars

\* the loop runs on as long as it has a pass to make
SpecExpandFair == SpecExpand /\ WF_vars(NextExpand)

\* C40: every call of expandEnvVariables returns, whatever the string and
\* the environment, also when the value of a variable holds a reference.
C40_ExpandTerminates == <>(lastCall.op = "expandEnvVariables")

====
